---- MODULE Spec2Model ----
(***************************************************************************)
(* badger_explorer_core: the line-delimited RPC dispatcher (api/rpc.go),   *)
(* its chunked-write session table, and the store handle (db.DBClient).    *)
(*                                                                         *)
(* Go strings and byte slices are sequences of byte values; the base64     *)
(* text of a chunk is a sequence of one-character strings.                 *)
(***************************************************************************)
EXTENDS Integers, Sequences, FiniteSets, TLC

(***************************************************************************)
(* Bounds of the model.                                                    *)
(***************************************************************************)
\* number of non-empty lines Run reads before the input ends
MaxLines == 2
\* the same, when the client only uploads (specification SpecSession)
MaxSessionLines == 3
\* the same, when the client uploads and waits for each response before it
\* sends the next line (specification SpecSequential)
MaxSequentialLines == 5
\* number of handleLine goroutines that have not returned yet
MaxActive == 2
\* largest limit and offset of the ListKeys calls
MaxLimit == 3
MaxOffset == 2
MaxPreviewChars == 2
MaxLockLines == 2
MaxFetches == 3

(***************************************************************************)
(* Program constants.                                                      *)
(***************************************************************************)
\* rpc.go:81  sendError(req.ID, 1003, "Invalid request format")
CodeInvalidRequest == 1003
\* rpc.go:106 and rpc.go:111  sendError(req.ID, 1000, ...)
CodeError == 1000

(***************************************************************************)
(* encoding/base64, StdEncoding (padded).                                  *)
(***************************************************************************)
B64Chars ==
    << "A","B","C","D","E","F","G","H","I","J","K","L","M","N","O","P",
       "Q","R","S","T","U","V","W","X","Y","Z","a","b","c","d","e","f",
       "g","h","i","j","k","l","m","n","o","p","q","r","s","t","u","v",
       "w","x","y","z","0","1","2","3","4","5","6","7","8","9","+","/" >>

IsB64(c) == \E i \in 1..64 : B64Chars[i] = c

B64Val(c) == (CHOOSE i \in 1..64 : B64Chars[i] = c) - 1

\* one quantum of four characters; last says whether padding is allowed here
DecodeQuantum(q, last) ==
    IF ~(IsB64(q[1]) /\ IsB64(q[2])) THEN [ok |-> FALSE, bytes |-> <<>>]
    ELSE LET v1 == B64Val(q[1])
             v2 == B64Val(q[2])
             b1 == v1 * 4 + (v2 \div 16)
         IN  IF q[3] = "=" /\ q[4] = "="
             THEN [ok |-> last, bytes |-> IF last THEN <<b1>> ELSE <<>>]
             ELSE IF ~IsB64(q[3]) THEN [ok |-> FALSE, bytes |-> <<>>]
             ELSE LET v3 == B64Val(q[3])
                      b2 == (v2 % 16) * 16 + (v3 \div 4)
                  IN  IF q[4] = "="
                      THEN [ok |-> last, bytes |-> IF last THEN <<b1, b2>> ELSE <<>>]
                      ELSE IF ~IsB64(q[4]) THEN [ok |-> FALSE, bytes |-> <<>>]
                      ELSE [ok |-> TRUE,
                            bytes |-> <<b1, b2, (v3 % 4) * 64 + B64Val(q[4])>>]

RECURSIVE DecodeString(_)
\* base64.StdEncoding.DecodeString: [ok, bytes]
DecodeString(s) ==
    IF Len(s) = 0 THEN [ok |-> TRUE, bytes |-> <<>>]
    ELSE IF Len(s) < 4 THEN [ok |-> FALSE, bytes |-> <<>>]
    ELSE LET q == DecodeQuantum(SubSeq(s, 1, 4), Len(s) = 4)
             r == DecodeString(SubSeq(s, 5, Len(s)))
         IN  IF q.ok /\ r.ok THEN [ok |-> TRUE, bytes |-> q.bytes \o r.bytes]
             ELSE [ok |-> FALSE, bytes |-> <<>>]

RECURSIVE EncodeToString(_)
\* base64.StdEncoding.EncodeToString
EncodeToString(b) ==
    IF Len(b) = 0 THEN <<>>
    ELSE IF Len(b) = 1
    THEN << B64Chars[(b[1] \div 4) + 1], B64Chars[(b[1] % 4) * 16 + 1], "=", "=" >>
    ELSE IF Len(b) = 2
    THEN << B64Chars[(b[1] \div 4) + 1],
            B64Chars[(b[1] % 4) * 16 + (b[2] \div 16) + 1],
            B64Chars[(b[2] % 16) * 4 + 1], "=" >>
    ELSE << B64Chars[(b[1] \div 4) + 1],
            B64Chars[(b[1] % 4) * 16 + (b[2] \div 16) + 1],
            B64Chars[(b[2] % 16) * 4 + (b[3] \div 64) + 1],
            B64Chars[(b[3] % 64) + 1] >> \o EncodeToString(SubSeq(b, 4, Len(b)))

(***************************************************************************)
(* The request lines the client may send.                                  *)
(***************************************************************************)
\* session ids (envelope ids of put_value requests)
SessionIds == {"s1", "s2"}
\* keys: "k", "k2", "p" and the empty key (which the store refuses)
KeyK == <<107>>
KeyK2 == <<107, 50>>
KeyP == <<112>>
KeyEmpty == <<>>
\* base64 payloads: "A", "BC", and a text that is no base64
DataA == <<"Q", "Q", "=", "=">>
DataBC == <<"Q", "k", "M", "=">>
DataBad == <<"Q", "Q", "=">>
\* store directories: one that exists, one that does not
PathD == "d"
PathMissing == "nodir"
ExistingPaths == {PathD}

\* form: "ok" a well-formed envelope; "syntax" not JSON; "typeerr" JSON whose
\* "type" field is not a string.  pvalid: params decode into the handler's struct.
Blank ==
    [form |-> "ok", id |-> "", type |-> "", pvalid |-> TRUE, sid |-> "",
     key |-> <<>>, data |-> <<>>, idx |-> 0, vlen |-> 0, ttl |-> 0, path |-> "",
     mode |-> "", sort |-> "", limit |-> 0, offset |-> 0]

PutValueLines ==
    { [Blank EXCEPT !.id = "s1", !.type = "put_value", !.key = KeyP, !.vlen = v,
                    !.ttl = 5]
        : v \in {-1, 3} }
PutChunkLines ==
    { [Blank EXCEPT !.id = "r", !.type = "put_chunk", !.sid = "s1",
                    !.idx = ck[1], !.data = ck[2]]
        : ck \in {<<1, DataA>>, <<0, DataBC>>, <<0, DataBad>>} }
PutCommitLines ==
    { [Blank EXCEPT !.id = "r", !.type = "put_commit", !.sid = cm[1],
                    !.key = cm[2], !.ttl = cm[3]]
        : cm \in {<<"s1", KeyK, 0>>, <<"s1", KeyEmpty, 0>>, <<"s2", KeyK, 0>>,
                  <<"s1", KeyK2, 7>>} }
OpenDBLines ==
    { [Blank EXCEPT !.id = "r", !.type = "open_db", !.path = p]
        : p \in {PathD, PathMissing} }
OtherLines ==
    { [Blank EXCEPT !.id = "r", !.type = "close_db", !.pvalid = FALSE],
      [Blank EXCEPT !.id = "r", !.type = "get_value", !.key = KeyK],
      [Blank EXCEPT !.id = "r", !.type = "delete_key", !.key = KeyK],
      [Blank EXCEPT !.id = "r", !.type = "delete_key", !.key = KeyEmpty],
      [Blank EXCEPT !.id = "r", !.type = "list_keys", !.mode = "prefix",
                    !.sort = "asc", !.limit = 10],
      [Blank EXCEPT !.id = "r", !.type = "put_commit", !.pvalid = FALSE],
      [Blank EXCEPT !.id = "r", !.type = "bogus"],
      [Blank EXCEPT !.id = "r", !.form = "typeerr"],
      [Blank EXCEPT !.form = "syntax"] }

Lines == PutValueLines \cup PutChunkLines \cup PutCommitLines
            \cup OpenDBLines \cup OtherLines

\* the lines of a client that uploads one value in chunks
SessionLines ==
    { [Blank EXCEPT !.id = "s1", !.type = "put_value", !.key = KeyK, !.vlen = 3],
      [Blank EXCEPT !.id = "r", !.type = "put_chunk", !.sid = "s1", !.idx = 1,
                    !.data = DataA],
      [Blank EXCEPT !.id = "r", !.type = "put_commit", !.sid = "s1", !.key = KeyK],
      [Blank EXCEPT !.id = "r", !.type = "close_db", !.pvalid = FALSE] }

\* what a line region of the scanner buffer holds once a later Scan has
\* shifted the buffer and read over it, when it is no line at all
Garbage == [Blank EXCEPT !.form = "syntax"]

(***************************************************************************)
(* Errors and maps.                                                        *)
(***************************************************************************)
\* a map with no entry
EmptyMap == [x \in {} |-> <<>>]

\* the map kv with key k set to v
MapPut(kv, k, v) == [x \in DOMAIN kv \cup {k} |-> IF x = k THEN v ELSE kv[x]]

\* the map kv without key k
MapDelete(kv, k) == [x \in DOMAIN kv \ {k} |-> kv[x]]

NoErr == <<>>
Msg(text) == <<text>>
\* fmt.Errorf("unknown upload session: %s", p.ID)
ErrUnknownSession(id) == <<"unknown upload session: ", id>>
ErrNotOpen == Msg("database not open")
ErrAlreadyOpen == Msg("database is already open")
ErrNoDir(path) == <<"directory does not exist: ", path>>
\* errors of the badger engine
ErrDBClosed == Msg("DB Closed")
ErrEmptyKey == Msg("Key cannot be empty")
ErrKeyNotFound == Msg("Key not found")
\* errors of encoding/json and encoding/base64 on a handler's params
ErrParams == Msg("json: cannot unmarshal params")
ErrBase64 == Msg("illegal base64 data")

\* an Open that replaces the store the handle holds
OpenReplace(cl, n, path, engineOk) ==
    IF path \notin ExistingPaths
    THEN [c |-> cl, opened |-> n, err |-> ErrNoDir(path)]
    ELSE IF ~engineOk
    THEN [c |-> cl, opened |-> n, err |-> Msg("failed to open badger db")]
    ELSE [c |-> [db |-> n + 1, path |-> path], opened |-> n + 1, err |-> NoErr]

(***************************************************************************)
(* db.DBClient and the badger engine behind it.                            *)
(***************************************************************************)
\* DBClient.Open on client cl, n instances opened before; engineOk: badger.Open
\* succeeds
Open(cl, n, path, engineOk) ==
    IF cl.db # 0 THEN [c |-> cl, opened |-> n, err |-> ErrAlreadyOpen]
    ELSE IF path \notin ExistingPaths
    THEN [c |-> cl, opened |-> n, err |-> ErrNoDir(path)]
    ELSE IF ~engineOk
    THEN [c |-> cl, opened |-> n, err |-> Msg("failed to open badger db")]
    ELSE [c |-> [db |-> n + 1, path |-> path], opened |-> n + 1, err |-> NoErr]

\* a Close that reports a handle with nothing open
CloseStrict(cl) ==
    IF cl.db = 0 THEN [c |-> cl, err |-> ErrNotOpen]
    ELSE [c |-> [db |-> 0, path |-> ""], err |-> NoErr]

\* DBClient.Close
Close(cl) ==
    IF cl.db = 0 THEN [c |-> cl, err |-> NoErr]
    ELSE [c |-> [db |-> 0, path |-> ""], err |-> NoErr]

\* DBClient.IsOpen, DBClient.GetPath
IsOpen(cl) == cl.db # 0
GetPath(cl) == cl.path

\* a set that drops the lifetime
SetValueUpdateNoTTL(kv, key, value, ttl) ==
    IF key = <<>> THEN [store |-> kv, err |-> ErrEmptyKey]
    ELSE [store |-> MapPut(kv, key, [val |-> value, ttl |-> 0]), err |-> NoErr]

\* the db.Update transaction of SetValue on an instance that is open
SetValueUpdate(kv, key, value, ttl) ==
    IF key = <<>> THEN [store |-> kv, err |-> ErrEmptyKey]
    ELSE [store |-> MapPut(kv, key, [val |-> value,
                                     ttl |-> IF ttl > 0 THEN ttl ELSE 0]),
          err |-> NoErr]

\* a get that reads the last key that begins with the key asked for
GetValueViewPrefix(kv, key) ==
    LET under == {k \in DOMAIN kv :
                    Len(k) >= Len(key) /\ SubSeq(k, 1, Len(key)) = key}
    IN  IF key = <<>> THEN [val |-> <<>>, err |-> ErrEmptyKey]
        ELSE IF under = {} THEN [val |-> <<>>, err |-> ErrKeyNotFound]
        ELSE [val |-> kv[CHOOSE k \in under : \A j \in under : Len(j) <= Len(k)].val,
              err |-> NoErr]

\* the db.View transaction of GetValue
GetValueView(kv, key) ==
    IF key = <<>> THEN [val |-> <<>>, err |-> ErrEmptyKey]
    ELSE IF key \notin DOMAIN kv THEN [val |-> <<>>, err |-> ErrKeyNotFound]
    ELSE [val |-> kv[key].val, err |-> NoErr]

\* a delete that removes nothing
DeleteKeyUpdateNoop(kv, key) ==
    IF key = <<>> THEN [store |-> kv, err |-> ErrEmptyKey]
    ELSE [store |-> kv, err |-> NoErr]

\* the db.Update transaction of DeleteKey
DeleteKeyUpdate(kv, key) ==
    IF key = <<>> THEN [store |-> kv, err |-> ErrEmptyKey]
    ELSE [store |-> MapDelete(kv, key), err |-> NoErr]

(***************************************************************************)
(* DBClient.ListKeys: the key-space query.                                 *)
(***************************************************************************)
\* part_002:228  previewLen = 100
DefaultPreviewLen == 100
\* part_002:278  isBinary looks at the first 512 bytes
BinaryScanLen == 512

\* a < b for Go strings / badger keys (bytewise)
RECURSIVE KeyLess(_, _)
KeyLess(a, b) ==
    IF Len(b) = 0 THEN FALSE
    ELSE IF Len(a) = 0 THEN TRUE
    ELSE IF a[1] # b[1] THEN a[1] < b[1]
    ELSE KeyLess(Tail(a), Tail(b))

\* the keys of S in the store's native (ascending) order
RECURSIVE SortKeys(_)
SortKeys(S) ==
    IF S = {} THEN <<>>
    ELSE LET m == CHOOSE k \in S : \A o \in S \ {k} : KeyLess(k, o)
         IN  <<m>> \o SortKeys(S \ {m})

Reverse(seq) == [i \in 1..Len(seq) |-> seq[Len(seq) + 1 - i]]

\* strings.HasPrefix
HasPrefix(str, prefix) ==
    Len(prefix) <= Len(str) /\ SubSeq(str, 1, Len(prefix)) = prefix

\* strings.Contains
Contains(str, sub) ==
    \E i \in 0..(Len(str) - Len(sub)) : SubSeq(str, i + 1, i + Len(sub)) = sub

\* regexp.Compile on the patterns of the model: literal bytes, '.', a leading
\* '^', a trailing '$'; a '(' is a group that is never closed
RegexCompile(pattern) ==
    IF \E i \in 1..Len(pattern) : pattern[i] = 40
    THEN [ok |-> FALSE, anchorStart |-> FALSE, anchorEnd |-> FALSE, body |-> <<>>]
    ELSE LET as == Len(pattern) > 0 /\ pattern[1] = 94
             rest == IF as THEN Tail(pattern) ELSE pattern
             ae == Len(rest) > 0 /\ rest[Len(rest)] = 36
         IN  [ok |-> TRUE, anchorStart |-> as, anchorEnd |-> ae,
              body |-> IF ae THEN SubSeq(rest, 1, Len(rest) - 1) ELSE rest]

\* re.MatchString: the pattern matches somewhere in str
RegexMatch(re, str) ==
    \E i \in 0..(Len(str) - Len(re.body)) :
        /\ re.anchorStart => i = 0
        /\ re.anchorEnd => i + Len(re.body) = Len(str)
        /\ \A j \in 1..Len(re.body) :
               re.body[j] = 46 \/ re.body[j] = str[i + j]

\* an iterator whose Reverse option is not set
IterKeysForward(kv, reverse) == SortKeys(DOMAIN kv)

\* the iterator's key sequence, in iteration order
IterKeys(kv, reverse) ==
    IF reverse THEN Reverse(SortKeys(DOMAIN kv)) ELSE SortKeys(DOMAIN kv)

\* it.Seek(startKey): the position of the first key at or after startKey in
\* iteration order; an empty startKey rewinds; Len(it) + 1 is "not valid"
Seek(it, startKey, reverse) ==
    IF startKey = <<>> THEN 1
    ELSE LET at == {i \in 1..Len(it) :
                      IF reverse THEN ~KeyLess(startKey, it[i])
                      ELSE ~KeyLess(it[i], startKey)}
         IN  IF at = {} THEN Len(it) + 1
             ELSE CHOOSE i \in at : \A j \in at : i <= j

\* a seek position that does not look at StartKey
StartKeyOfPattern(opts) ==
    IF opts.Mode # "prefix"
    THEN (IF opts.SortDesc THEN <<255>> ELSE <<>>)
    ELSE opts.Prefix

\* the seek position ListKeys chooses
StartKeyOf(opts) ==
    IF opts.StartKey # <<>> THEN opts.StartKey
    ELSE IF opts.Mode # "prefix"
    THEN (IF opts.SortDesc THEN <<255>> ELSE <<>>)
    ELSE opts.Prefix

\* a filter that lets every key pass when the mode is not a known one
KeyMatchesDefaultAll(opts, re, keyStr) ==
    IF opts.Mode = "prefix" THEN HasPrefix(keyStr, opts.Prefix)
    ELSE IF opts.Mode = "substring" THEN Contains(keyStr, opts.Prefix)
    ELSE IF opts.Mode = "regex"
    THEN (IF opts.Prefix # <<>> THEN RegexMatch(re, keyStr) ELSE TRUE)
    ELSE TRUE

\* the filter of the loop
KeyMatches(opts, re, keyStr) ==
    IF opts.Mode = "prefix" THEN HasPrefix(keyStr, opts.Prefix)
    ELSE IF opts.Mode = "substring" THEN Contains(keyStr, opts.Prefix)
    ELSE IF opts.Mode = "regex"
    THEN (IF opts.Prefix # <<>> THEN RegexMatch(re, keyStr) ELSE TRUE)
    ELSE HasPrefix(keyStr, opts.Prefix)

\* an exit at the first key that lacks the prefix, wherever it lies
PastPrefixAnyMiss(opts, keyStr) ==
    /\ opts.Mode = "prefix"
    /\ ~opts.SortDesc
    /\ ~HasPrefix(keyStr, opts.Prefix)
    /\ Len(opts.Prefix) > 0

\* the ascending prefix scan returns at the first key past the prefix
PastPrefix(opts, keyStr) ==
    /\ opts.Mode = "prefix"
    /\ ~opts.SortDesc
    /\ ~HasPrefix(keyStr, opts.Prefix)
    /\ Len(opts.Prefix) > 0
    /\ KeyLess(opts.Prefix, keyStr)

\* a test that looks at every byte of the value
isBinaryWhole(data) == \E i \in 1..Len(data) : data[i] = 0

\* isBinary
isBinary(data) ==
    LET n == IF Len(data) > BinaryScanLen THEN BinaryScanLen ELSE Len(data)
    IN  \E i \in 1..n : data[i] = 0

\* fmt.Sprintf("%d", n) for n >= 0
RECURSIVE Decimal(_)
Decimal(n) == IF n < 10 THEN <<48 + n>> ELSE Decimal(n \div 10) \o <<48 + (n % 10)>>

\* the ValuePreview of a row
Preview(valCopy, previewChars) ==
    LET previewLen == IF previewChars <= 0 THEN DefaultPreviewLen ELSE previewChars
        preview == IF Len(valCopy) > previewLen
                   THEN SubSeq(valCopy, 1, previewLen) \o <<46, 46, 46>>
                   ELSE valCopy
    IN  IF isBinary(valCopy)
        THEN <<91, 66, 105, 110, 97, 114, 121, 32>> \o Decimal(Len(valCopy))
                 \o <<32, 98, 121, 116, 101, 115, 93>>
        ELSE preview

KeyItem(keyStr, entry, opts) ==
    [Key |-> keyStr, ValuePreview |-> Preview(entry.val, opts.PreviewChars),
     Size |-> Len(entry.val), ExpiresAt |-> entry.ttl]

\* a loop in which the keys that fail the filter use up the offset
RECURSIVE ListLoopCountAll(_, _, _, _, _, _, _)
ListLoopCountAll(kv, it, i, skipped, items, opts, re) ==
    IF i > Len(it) THEN [items |-> items, hasMore |-> FALSE]
    ELSE IF PastPrefix(opts, it[i]) THEN [items |-> items, hasMore |-> FALSE]
    ELSE IF opts.StartKey = <<>> /\ skipped < opts.Offset
    THEN ListLoopCountAll(kv, it, i + 1, skipped + 1, items, opts, re)
    ELSE IF ~KeyMatches(opts, re, it[i])
    THEN ListLoopCountAll(kv, it, i + 1, skipped, items, opts, re)
    ELSE LET more == Append(items, KeyItem(it[i], kv[it[i]], opts))
         IN  IF Len(more) >= opts.Limit
             THEN [items |-> more, hasMore |-> i + 1 <= Len(it)]
             ELSE ListLoopCountAll(kv, it, i + 1, skipped, more, opts, re)

\* the loop of ListKeys from iterator position i
RECURSIVE ListLoop(_, _, _, _, _, _, _)
ListLoop(kv, it, i, skipped, items, opts, re) ==
    IF i > Len(it) THEN [items |-> items, hasMore |-> FALSE]
    ELSE IF PastPrefix(opts, it[i]) THEN [items |-> items, hasMore |-> FALSE]
    ELSE IF ~KeyMatches(opts, re, it[i])
    THEN ListLoop(kv, it, i + 1, skipped, items, opts, re)
    ELSE IF opts.StartKey = <<>> /\ skipped < opts.Offset
    THEN ListLoop(kv, it, i + 1, skipped + 1, items, opts, re)
    ELSE LET more == Append(items, KeyItem(it[i], kv[it[i]], opts))
         IN  IF Len(more) >= opts.Limit
             THEN [items |-> more, hasMore |-> i + 1 <= Len(it)]
             ELSE ListLoop(kv, it, i + 1, skipped, more, opts, re)

\* a View that reports the pattern error after the scan, rows kept
ListKeysViewPartial(kv, opts) ==
    LET it == IterKeys(kv, opts.SortDesc)
        re == RegexCompile(opts.Prefix)
        r == ListLoop(kv, it, Seek(it, StartKeyOf(opts), opts.SortDesc),
                      0, <<>>, [opts EXCEPT !.Mode = "substring", !.Prefix = <<>>], re)
    IN  IF opts.Mode = "regex" /\ opts.Prefix # <<>> /\ ~re.ok
        THEN [items |-> r.items, hasMore |-> r.hasMore, err |-> Msg("invalid regex")]
        ELSE [items |-> r.items, hasMore |-> r.hasMore, err |-> NoErr]

\* the db.View transaction of ListKeys: [items, hasMore, err]
ListKeysView(kv, opts) ==
    LET it == IterKeys(kv, opts.SortDesc)
        re == RegexCompile(opts.Prefix)
    IN  IF opts.Mode = "regex" /\ opts.Prefix # <<>> /\ ~re.ok
        THEN [items |-> <<>>, hasMore |-> FALSE, err |-> Msg("invalid regex")]
        ELSE LET r == ListLoop(kv, it, Seek(it, StartKeyOf(opts), opts.SortDesc),
                               0, <<>>, opts, re)
             IN  [items |-> r.items, hasMore |-> r.hasMore, err |-> NoErr]

\* handleListKeys: the options built from the request's params
ListKeysOptions(req) ==
    [Prefix |-> req.key, Mode |-> req.mode, SortDesc |-> req.sort = "desc",
     Limit |-> req.limit, Offset |-> req.offset, StartKey |-> <<>>,
     PreviewChars |-> 0]


(***************************************************************************)
(* api.Handler: responses and the session table.                           *)
(***************************************************************************)
NoResp == [id |-> "", type |-> <<>>, code |-> 0, msg |-> NoErr, result |-> <<>>]

sendResponse(id, typeStr, result) ==
    [id |-> id, type |-> typeStr, code |-> 0, msg |-> NoErr, result |-> result]

sendError(id, code, msg) ==
    [id |-> id, type |-> <<"error">>, code |-> code, msg |-> msg, result |-> <<>>]

\* the end of handleLine: the handler returned (result, err)
Reply(req, result, err) ==
    IF err # NoErr THEN sendError(req.id, CodeError, err)
    ELSE sendResponse(req.id, <<req.type, "_resp">>, result)

\* a decoder that leaves req zero on every error
UnmarshalZero(bytes) ==
    IF bytes.form # "ok" THEN [err |-> TRUE, req |-> Blank]
    ELSE [err |-> FALSE, req |-> bytes]

\* json.Unmarshal(line, &req): a syntax error leaves req zero; a field of the
\* wrong type is reported after the other fields have been stored
Unmarshal(bytes) ==
    IF bytes.form = "syntax" THEN [err |-> TRUE, req |-> Blank]
    ELSE IF bytes.form = "typeerr"
    THEN [err |-> TRUE, req |-> [Blank EXCEPT !.id = bytes.id]]
    ELSE [err |-> FALSE, req |-> bytes]

\* a put_value that keeps the buffer of a session that is live
putValueCSKeep(tbl, id) == IF id \in DOMAIN tbl THEN tbl ELSE MapPut(tbl, id, <<>>)

\* handlePutValue between Lock and Unlock
putValueCS(tbl, id) == MapPut(tbl, id, <<>>)

\* the append at the wrong end
putChunkCSPrepend(tbl, id, data) ==
    IF id \notin DOMAIN tbl THEN [tbl |-> tbl, err |-> ErrUnknownSession(id)]
    ELSE [tbl |-> [tbl EXCEPT ![id] = data \o @], err |-> NoErr]

\* an append that begins the session it does not find
putChunkCSCreate(tbl, id, data) ==
    IF id \notin DOMAIN tbl THEN [tbl |-> MapPut(tbl, id, data), err |-> NoErr]
    ELSE [tbl |-> [tbl EXCEPT ![id] = @ \o data], err |-> NoErr]

\* an append to a buffer read before the lock was taken: the update of
\* another chunk is lost
putChunkCSOverwrite(tbl, id, data) ==
    IF id \notin DOMAIN tbl THEN [tbl |-> tbl, err |-> ErrUnknownSession(id)]
    ELSE [tbl |-> [tbl EXCEPT ![id] = data], err |-> NoErr]

\* handlePutChunk between Lock and Unlock: the table and the error returned
putChunkCS(tbl, id, data) ==
    IF id \notin DOMAIN tbl THEN [tbl |-> tbl, err |-> ErrUnknownSession(id)]
    ELSE [tbl |-> [tbl EXCEPT ![id] = @ \o data], err |-> NoErr]

\* a lookup whose ok is not tested: a missing session reads as an empty buffer
putCommitCSNoCheck(tbl, id) ==
    [buf |-> IF id \in DOMAIN tbl THEN tbl[id] ELSE <<>>,
     ok |-> TRUE,
     tbl |-> MapDelete(tbl, id)]

\* a commit that leaves the session in the table
putCommitCSKeep(tbl, id) ==
    [buf |-> IF id \in DOMAIN tbl THEN tbl[id] ELSE <<>>,
     ok |-> id \in DOMAIN tbl,
     tbl |-> tbl]

\* handlePutCommit between Lock and Unlock: buf, ok and the table
putCommitCS(tbl, id) ==
    [buf |-> IF id \in DOMAIN tbl THEN tbl[id] ELSE <<>>,
     ok |-> id \in DOMAIN tbl,
     tbl |-> MapDelete(tbl, id)]

\* the output after h.out.Write(bytes) by task t: the response is on the
\* line being formed
WriteBytes(o, t) == [o EXCEPT !.cur = Append(@, t)]

\* the output after h.out.Write("\n") by task t: the line being formed ends;
\* it is a response line when it holds exactly the response of t
WriteNewline(o, t) ==
    IF o.cur = <<t>> THEN [o EXCEPT !.lines = @ + 1, !.cur = <<>>]
    ELSE [o EXCEPT !.torn = @ + 1, !.cur = <<>>]

(***************************************************************************)
(* State.                                                                  *)
(***************************************************************************)
VARIABLES
    proc,         \* the process: "running" (Run is scanning), "exited" (Run and
                  \* main have returned), "crashed" (a panic)
    tasks,        \* the handleLine goroutines, in the order their lines were read
    chunkBuffer,  \* Handler.chunkBuffer: session id -> accumulated bytes
    mu,           \* Handler.mu: 0 when free, else the task holding it
    out,          \* Handler.out: [lines, torn, cur], the complete response lines
                  \* written, the lines that are no single response, and the
                  \* tasks whose bytes are on the line being formed
    dbClient,     \* DBClient: [db, path]; db = 0 is nil, else the badger instance
    opened,       \* number of badger instances opened so far
    store,        \* contents of the store directory: key -> [val, ttl]
    expect,       \* history: per session begun by put_value and not committed,
                  \* the payloads of the chunk requests made since, in order
    inits,        \* history: per session id, the put_value requests handled
    commits,      \* history: per session id, the commits that obtained a buffer
    query,        \* the latest DBClient.ListKeys call made in process (the key
                  \* list screen): its options and result, and the keys of
                  \* the pages fetched since offset 0
    written,      \* history: key -> [val, ttl, live], what the client last
                  \* stored under the key with success (the payload it sent,
                  \* the ttl it asked for) and whether no successful delete
                  \* of the key has followed
    screen        \* DBMainModel, the key list screen: its fields, the debounce
                  \* ticks and fetch commands in flight, and as history the
                  \* number of fetches issued and the fetch whose page is shown

vars == <<proc, tasks, chunkBuffer, mu, out, dbClient, opened, store,
          expect, inits, commits, query, written, screen>>

\* a goroutine that has not decoded its line yet.  line is the line it was
\* started for, bytes what its slice of the scanner's buffer holds
NewTask(line) ==
    [pc |-> "handleLine", line |-> line, bytes |-> line, req |-> Blank,
     data |-> <<>>, resp |-> NoResp, buf |-> <<>>, ok |-> FALSE, db |-> 0,
     gen |-> 0, at |-> 0, wrote |-> FALSE, stored |-> <<>>, expected |-> <<>>]

\* a goroutine that has returned
Done == [NewTask(Blank) EXCEPT !.pc = "done"]

TaskIds == 1..Len(tasks)
Active == {t \in TaskIds : tasks[t].pc # "done"}
Alive == proc = "running"

\* the known plain text of the base64 payloads
Payload(data) ==
    IF data = DataA THEN <<65>>
    ELSE IF data = DataBC THEN <<66, 67>>
    ELSE <<>>

(***************************************************************************)
(* In-process ListKeys calls: the stores and the options.                  *)
(***************************************************************************)
KeyA == <<97>>
KeyAB == <<97, 98>>
KeyB == <<98>>
\* a binary key, as other programs write them: 0xFF 'a'
KeyHigh == <<255, 97>>
StoredKeys == {KeyA, KeyAB, KeyB, KeyHigh}

\* the contents of an existing store directory
KeyStores ==
    UNION {[K -> {[val |-> <<118>>, ttl |-> 0]}] : K \in SUBSET StoredKeys}

\* values: text with a NUL; 100 and 101 bytes of text; 512 bytes ending in
\* a NUL (the last byte isBinary looks at); 513 bytes ending in a NUL
ValNul == <<118, 0, 119>>
ValDefault == [i \in 1..DefaultPreviewLen |-> 120]
ValLong == [i \in 1..(DefaultPreviewLen + 1) |-> 120]
ValNulInScan == [i \in 1..BinaryScanLen |-> IF i = BinaryScanLen THEN 0 ELSE 120]
ValNulPastScan ==
    [i \in 1..(BinaryScanLen + 1) |-> IF i = BinaryScanLen + 1 THEN 0 ELSE 120]
Values == {<<>>, <<118, 119>>, ValNul, ValDefault, ValLong, ValNulInScan,
           ValNulPastScan}

\* a store that holds one key with one of the values
ValueStores == {MapPut(EmptyMap, KeyA, [val |-> v, ttl |-> 0]) : v \in Values}

Stores == KeyStores \cup ValueStores

\* patterns: "", "a", "b", "^b" and "(", which is no regular expression
Patterns == {<<>>, KeyA, KeyB, <<94, 98>>, <<40>>}
Modes == {"prefix", "substring", "regex", ""}
StartKeys == {<<>>, KeyA, KeyAB}

QueryOptions ==
    [Prefix : Patterns, Mode : Modes, SortDesc : BOOLEAN, Limit : (-1)..MaxLimit,
     Offset : 0..MaxOffset, StartKey : StartKeys,
     PreviewChars : (-1)..MaxPreviewChars]

\* no call made yet
NoQuery ==
    [phase |-> "none",
     opts |-> [Prefix |-> <<>>, Mode |-> "", SortDesc |-> FALSE, Limit |-> 0,
               Offset |-> 0, StartKey |-> <<>>, PreviewChars |-> 0],
     items |-> <<>>, hasMore |-> FALSE, err |-> NoErr,
     fromStart |-> FALSE, pages |-> <<>>]

\* DBClient.ListKeys as one call: the nil test and the transaction
ListKeysCall(cl, kv, opts) ==
    IF cl.db = 0 THEN [items |-> <<>>, hasMore |-> FALSE, err |-> ErrNotOpen]
    ELSE ListKeysView(kv, opts)

\* the keys of the rows
Keys(items) == [i \in 1..Len(items) |-> items[i].Key]

\* config.DefaultConfig: Search.DefaultMode
DefaultMode == "prefix"

\* the texts of the search box: "" and "a"
SearchTexts == {<<>>, KeyA}

\* NewDBMainModel: the search box and the table are focused, nothing is shown
NoScreen ==
    [focused |-> TRUE, tableFocused |-> TRUE, search |-> <<>>,
     searchMode |-> DefaultMode,
     sortDesc |-> FALSE, offset |-> 0, keys |-> <<>>, hasMore |-> FALSE,
     err |-> NoErr, searchID |-> 0, ticks |-> {}, cmds |-> {},
     issued |-> 0, shown |-> 0]

\* NewHandler on a DBClient whose store is closed, or open (the state an
\* earlier open_db request leaves)
Init ==
    /\ proc = "running"
    /\ tasks = <<>>
    /\ chunkBuffer = EmptyMap
    /\ mu = 0
    /\ out = [lines |-> 0, torn |-> 0, cur |-> <<>>]
    /\ \E isOpen \in BOOLEAN :
         /\ dbClient = IF isOpen THEN [db |-> 1, path |-> PathD]
                       ELSE [db |-> 0, path |-> ""]
         /\ opened = IF isOpen THEN 1 ELSE 0
    /\ store = EmptyMap
    /\ expect = EmptyMap
    /\ inits = [s \in SessionIds |-> 0]
    /\ commits = [s \in SessionIds |-> 0]
    /\ query = NoQuery
    /\ written = EmptyMap
    /\ screen = NoScreen

(***************************************************************************)
(* Run and main.                                                           *)
(***************************************************************************)
\* the goroutines that have not read their line yet
Undecoded == {t \in TaskIds : tasks[t].pc = "handleLine"}

\* scanner.Scan returns a non-empty line, one of `lines`: go h.handleLine(line).
\* The slices handed to earlier goroutines point into the scanner's buffer:
\* Scan may have shifted the buffer and read the new input over them.
Scan(lines, max, maxActive) ==
    /\ proc = "running"
    /\ Len(tasks) < max
    /\ Cardinality(Active) < maxActive
    /\ \E line \in lines :
         \E over \in [Undecoded -> {"kept", "line", "garbage"}] :
            tasks' = Append(
                [t \in TaskIds |->
                    IF t \notin Undecoded \/ over[t] = "kept" THEN tasks[t]
                    ELSE [tasks[t] EXCEPT !.bytes =
                              IF over[t] = "line" THEN line ELSE Garbage]],
                NewTask(line))
    /\ UNCHANGED <<proc, chunkBuffer, mu, out, dbClient, opened, store,
                   expect, inits, commits, query, written, screen>>

RunScan == Scan(Lines, MaxLines, MaxActive)

RunScanSession == Scan(SessionLines, MaxSessionLines, MaxActive)

\* the client sends a line only when every response has come
RunScanSequential == Scan(Lines, MaxSequentialLines, 1)

\* scanner.Scan returns an empty line: continue
RunSkipEmpty ==
    /\ proc = "running"
    /\ UNCHANGED vars

\* scanner.Scan returns false: Run returns, main returns, its deferred
\* dbClient.Close() runs and the process ends, whatever the goroutines are
\* doing
RunReturn ==
    /\ proc = "running"
    /\ proc' = "exited"
    /\ dbClient' = Close(dbClient).c
    /\ UNCHANGED <<tasks, chunkBuffer, mu, out, opened, store,
                   expect, inits, commits, query, written, screen>>

(***************************************************************************)
(* handleLine: one goroutine per line.                                     *)
(***************************************************************************)
SetTask(t, rec) == tasks' = [tasks EXCEPT ![t] = rec]

\* the task goes on to write its response
ToWrite(t, resp) == SetTask(t, [tasks[t] EXCEPT !.pc = "writeJSON", !.resp = resp])

\* the request types of the switch
RequestKinds == {"open_db", "list_keys", "get_value", "put_value", "put_chunk",
                 "put_commit", "delete_key", "close_db"}

\* handleLine up to the handler's first access to shared state: the request
\* is routed and the handler decodes its params
Route(task, req) ==
    LET fail(err) == [task EXCEPT !.pc = "writeJSON", !.req = req,
                                  !.resp = Reply(req, <<>>, err)]
        goto(pc) == [task EXCEPT !.pc = pc, !.req = req]
    IN  IF req.type \notin RequestKinds
        THEN [task EXCEPT !.pc = "writeJSON", !.req = req,
                  !.resp = sendError(req.id, CodeError, Msg("Unknown request type"))]
        ELSE IF req.type = "close_db" THEN goto("Close")
        ELSE IF ~req.pvalid THEN fail(ErrParams)
        ELSE IF req.type = "open_db" THEN goto("Open")
        ELSE IF req.type = "list_keys" THEN goto("ListKeys")
        ELSE IF req.type = "get_value" THEN goto("GetValue")
        ELSE IF req.type = "delete_key" THEN goto("DeleteKey")
        ELSE IF req.type = "put_value" THEN goto("handlePutValue")
        ELSE IF req.type = "put_commit" THEN goto("handlePutCommit")
        ELSE LET d == DecodeString(req.data)
             IN  IF ~d.ok THEN fail(ErrBase64)
                 ELSE [task EXCEPT !.pc = "handlePutChunk", !.req = req,
                                   !.data = d.bytes]

\* handleLine: json.Unmarshal(line, &req) and the switch
handleLine(t) ==
    /\ Alive
    /\ tasks[t].pc = "handleLine"
    /\ LET u == Unmarshal(tasks[t].bytes)
           task == [tasks[t] EXCEPT !.bytes = Blank]
       IN  IF u.err
           THEN SetTask(t, [task EXCEPT !.pc = "writeJSON", !.req = u.req,
                   !.resp = sendError(u.req.id, CodeInvalidRequest,
                                      Msg("Invalid request format"))])
           ELSE SetTask(t, Route(task, u.req))
    /\ UNCHANGED <<proc, chunkBuffer, mu, out, dbClient, opened, store,
                   expect, inits, commits, query, written, screen>>

\* handlePutValue from h.mu.Lock(): make([]byte, 0, p.ValueLength) panics on a
\* negative capacity
handlePutValue(t) ==
    /\ Alive
    /\ tasks[t].pc = "handlePutValue"
    /\ mu = 0
    /\ LET req == tasks[t].req
       IN  IF req.vlen < 0
           THEN /\ proc' = "crashed"
                /\ UNCHANGED <<tasks, chunkBuffer, expect, inits>>
           ELSE /\ chunkBuffer' = putValueCS(chunkBuffer, req.id)
                /\ expect' = MapPut(expect, req.id, <<>>)
                /\ inits' = [inits EXCEPT ![req.id] = @ + 1]
                /\ SetTask(t, [tasks[t] EXCEPT
                       !.pc = "writeJSON", !.resp = Reply(req, <<>>, NoErr),
                       !.at = IF req.id \in DOMAIN chunkBuffer
                              THEN Len(chunkBuffer[req.id]) ELSE 0])
                /\ UNCHANGED proc
    /\ UNCHANGED <<mu, out, dbClient, opened, store, commits, query, written, screen>>

\* a handlePutChunk that returns with h.mu held
handlePutChunkHold(t) ==
    /\ Alive
    /\ tasks[t].pc = "handlePutChunk"
    /\ mu = 0
    /\ mu' = t
    /\ LET req == tasks[t].req
           r == putChunkCS(chunkBuffer, req.sid, tasks[t].data)
       IN  /\ chunkBuffer' = r.tbl
           /\ expect' = IF req.sid \in DOMAIN expect
                        THEN [expect EXCEPT ![req.sid] =
                                  @ \o Payload(tasks[t].line.data)]
                        ELSE expect
           /\ SetTask(t, [tasks[t] EXCEPT
                  !.pc = "writeJSON", !.resp = Reply(req, <<>>, r.err),
                  !.gen = inits[req.sid],
                  !.at = IF req.sid \in DOMAIN chunkBuffer
                         THEN Len(chunkBuffer[req.sid]) ELSE 0])
    /\ UNCHANGED <<proc, out, dbClient, opened, store, inits, commits, query, written, screen>>

\* handlePutChunk from h.mu.Lock()
handlePutChunk(t) ==
    /\ Alive
    /\ tasks[t].pc = "handlePutChunk"
    /\ mu = 0
    /\ LET req == tasks[t].req
           r == putChunkCS(chunkBuffer, req.sid, tasks[t].data)
       IN  /\ chunkBuffer' = r.tbl
           /\ expect' = IF req.sid \in DOMAIN expect
                        THEN [expect EXCEPT ![req.sid] =
                                  @ \o Payload(tasks[t].line.data)]
                        ELSE expect
           /\ SetTask(t, [tasks[t] EXCEPT
                  !.pc = "writeJSON", !.resp = Reply(req, <<>>, r.err),
                  !.gen = inits[req.sid],
                  !.at = IF req.sid \in DOMAIN chunkBuffer
                         THEN Len(chunkBuffer[req.sid]) ELSE 0])
    /\ UNCHANGED <<proc, mu, out, dbClient, opened, store, inits, commits, query, written, screen>>

\* handlePutCommit from h.mu.Lock() to the test of ok
handlePutCommit(t) ==
    /\ Alive
    /\ tasks[t].pc = "handlePutCommit"
    /\ mu = 0
    /\ LET req == tasks[t].req
           r == putCommitCS(chunkBuffer, req.sid)
       IN  /\ chunkBuffer' = r.tbl
           /\ expect' = MapDelete(expect, req.sid)
           /\ commits' = IF r.ok THEN [commits EXCEPT ![req.sid] = @ + 1]
                         ELSE commits
           /\ IF ~r.ok
              THEN ToWrite(t, Reply(req, <<>>, ErrUnknownSession(req.sid)))
              ELSE SetTask(t, [tasks[t] EXCEPT
                       !.pc = "SetValue", !.buf = r.buf, !.ok = TRUE,
                       !.gen = inits[req.sid],
                       !.expected = IF req.sid \in DOMAIN expect
                                    THEN expect[req.sid] ELSE <<>>])
    /\ UNCHANGED <<proc, mu, out, dbClient, opened, store, inits, query, written, screen>>

\* an open_db that starts with an empty session table
OpenDBReset(t) ==
    /\ Alive
    /\ tasks[t].pc = "Open"
    /\ \E engineOk \in BOOLEAN :
         LET r == Open(dbClient, opened, tasks[t].req.path, engineOk)
         IN  /\ dbClient' = r.c
             /\ opened' = r.opened
             /\ ToWrite(t, Reply(tasks[t].req, <<>>, r.err))
    /\ chunkBuffer' = EmptyMap
    /\ UNCHANGED <<proc, mu, out, store, expect, inits, commits, query, written, screen>>

\* DBClient.Open / handleOpenDB
OpenDB(t) ==
    /\ Alive
    /\ tasks[t].pc = "Open"
    /\ \E engineOk \in BOOLEAN :
         LET r == Open(dbClient, opened, tasks[t].req.path, engineOk)
         IN  /\ dbClient' = r.c
             /\ opened' = r.opened
             /\ ToWrite(t, Reply(tasks[t].req, <<>>, r.err))
    /\ UNCHANGED <<proc, chunkBuffer, mu, out, store, expect, inits, commits, query, written, screen>>

\* a close that also drops the upload sessions
CloseDBReclaim(t) ==
    /\ Alive
    /\ tasks[t].pc = "Close"
    /\ LET r == Close(dbClient)
       IN  /\ dbClient' = r.c
           /\ ToWrite(t, Reply(tasks[t].req, <<>>, r.err))
    /\ chunkBuffer' = EmptyMap
    /\ UNCHANGED <<proc, mu, out, opened, store, expect, inits, commits, query, written, screen>>

\* DBClient.Close / handleCloseDB
CloseDB(t) ==
    /\ Alive
    /\ tasks[t].pc = "Close"
    /\ LET r == Close(dbClient)
       IN  /\ dbClient' = r.c
           /\ ToWrite(t, Reply(tasks[t].req, <<>>, r.err))
    /\ UNCHANGED <<proc, chunkBuffer, mu, out, opened, store,
                   expect, inits, commits, query, written, screen>>

\* an entry that starts the transaction without the nil test
LoadDBNoCheck(t, fn, txn) ==
    /\ Alive
    /\ tasks[t].pc = fn
    /\ SetTask(t, [tasks[t] EXCEPT !.pc = txn, !.db = dbClient.db])
    /\ UNCHANGED <<proc, chunkBuffer, mu, out, dbClient, opened, store,
                   expect, inits, commits, query, written, screen>>

\* c.mu.Lock(); db := c.db; c.mu.Unlock(); if db == nil { return not open }
LoadDB(t, fn, txn) ==
    /\ Alive
    /\ tasks[t].pc = fn
    /\ IF dbClient.db = 0
       THEN ToWrite(t, Reply(tasks[t].req, <<>>, ErrNotOpen))
       ELSE SetTask(t, [tasks[t] EXCEPT !.pc = txn, !.db = dbClient.db])
    /\ UNCHANGED <<proc, chunkBuffer, mu, out, dbClient, opened, store,
                   expect, inits, commits, query, written, screen>>

\* the badger instance db has been closed
Closed(db) == db # dbClient.db

GetValue(t) == LoadDB(t, "GetValue", "GetValueTxn")

GetValueTxn(t) ==
    /\ Alive
    /\ tasks[t].pc = "GetValueTxn"
    /\ LET req == tasks[t].req
           r == GetValueView(store, req.key)
       IN  IF Closed(tasks[t].db) THEN ToWrite(t, Reply(req, <<>>, ErrDBClosed))
           ELSE ToWrite(t, Reply(req, EncodeToString(r.val), r.err))
    /\ UNCHANGED <<proc, chunkBuffer, mu, out, dbClient, opened, store,
                   expect, inits, commits, query, written, screen>>

\* a commit that puts the buffer back when the store is not open
SetValueRestore(t) ==
    /\ Alive
    /\ tasks[t].pc = "SetValue"
    /\ IF dbClient.db = 0
       THEN /\ chunkBuffer' = MapPut(chunkBuffer, tasks[t].req.sid, tasks[t].buf)
            /\ ToWrite(t, Reply(tasks[t].req, <<>>, ErrNotOpen))
       ELSE /\ SetTask(t, [tasks[t] EXCEPT !.pc = "SetValueTxn",
                                           !.db = dbClient.db])
            /\ UNCHANGED chunkBuffer
    /\ UNCHANGED <<proc, mu, out, dbClient, opened, store,
                   expect, inits, commits, query, written, screen>>

\* DBClient.SetValue up to the nil test, called by handlePutCommit
SetValue(t) == LoadDB(t, "SetValue", "SetValueTxn")

SetValueTxn(t) ==
    /\ Alive
    /\ tasks[t].pc = "SetValueTxn"
    /\ LET req == tasks[t].req
           r == SetValueUpdate(store, req.key, tasks[t].buf, req.ttl)
       IN
       /\ IF Closed(tasks[t].db)
           THEN /\ ToWrite(t, Reply(req, <<>>, ErrDBClosed))
                /\ UNCHANGED store
           ELSE /\ store' = r.store
                /\ SetTask(t, [tasks[t] EXCEPT
                       !.pc = "writeJSON", !.resp = Reply(req, <<>>, r.err),
                       !.wrote = (r.err = NoErr),
                       !.stored = IF r.err = NoErr THEN r.store[req.key].val
                                  ELSE <<>>])
       /\ written' = IF ~Closed(tasks[t].db) /\ r.err = NoErr
                     THEN MapPut(written, req.key,
                                 [val |-> tasks[t].expected, ttl |-> req.ttl,
                                  live |-> TRUE])
                     ELSE written
    /\ UNCHANGED <<proc, chunkBuffer, mu, out, dbClient, opened,
                   expect, inits, commits, query, screen>>

DeleteKey(t) == LoadDB(t, "DeleteKey", "DeleteKeyTxn")

DeleteKeyTxn(t) ==
    /\ Alive
    /\ tasks[t].pc = "DeleteKeyTxn"
    /\ LET req == tasks[t].req
           r == DeleteKeyUpdate(store, req.key)
       IN
       /\ IF Closed(tasks[t].db)
           THEN /\ ToWrite(t, Reply(req, <<>>, ErrDBClosed))
                /\ UNCHANGED store
           ELSE /\ store' = r.store
                /\ ToWrite(t, Reply(req, <<>>, r.err))
       /\ written' = IF ~Closed(tasks[t].db) /\ r.err = NoErr
                        /\ req.key \in DOMAIN written
                     THEN [written EXCEPT ![req.key].live = FALSE]
                     ELSE written
    /\ UNCHANGED <<proc, chunkBuffer, mu, out, dbClient, opened,
                   expect, inits, commits, query, screen>>

ListKeys(t) == LoadDB(t, "ListKeys", "ListKeysTxn")

ListKeysTxn(t) ==
    /\ Alive
    /\ tasks[t].pc = "ListKeysTxn"
    /\ LET req == tasks[t].req
           r == ListKeysView(store, ListKeysOptions(req))
       IN  IF Closed(tasks[t].db) THEN ToWrite(t, Reply(req, <<>>, ErrDBClosed))
           ELSE ToWrite(t, Reply(req, <<r.items, r.hasMore>>, r.err))
    /\ UNCHANGED <<proc, chunkBuffer, mu, out, dbClient, opened, store,
                   expect, inits, commits, query, written, screen>>

\* a write that does not take the lock
writeJSONNoLock(t) ==
    /\ Alive
    /\ tasks[t].pc = "writeJSON"
    /\ out' = WriteBytes(out, t)
    /\ SetTask(t, [tasks[t] EXCEPT !.pc = "writeNewline"])
    /\ UNCHANGED <<proc, chunkBuffer, mu, dbClient, opened, store,
                   expect, inits, commits, query, written, screen>>

(***************************************************************************)
(* The key list screen: fetchKeysCmd and paging.                           *)
(***************************************************************************)
\* the state after ListKeys(opts) has returned; before: the keys of the
\* pages fetched so far
Fetched(opts, fromStart, before) ==
    LET r == ListKeysCall(dbClient, store, opts)
    IN  [phase |-> "fetched", opts |-> opts, items |-> r.items,
         hasMore |-> r.hasMore, err |-> r.err, fromStart |-> fromStart,
         pages |-> before \o Keys(r.items)]

\* a first ListKeys call with any options
CallListKeys ==
    /\ query.phase = "none"
    /\ \E opts \in QueryOptions :
          query' = Fetched(opts, opts.Offset = 0 /\ opts.StartKey = <<>>, <<>>)
    /\ UNCHANGED <<proc, tasks, chunkBuffer, mu, out, dbClient, opened, store,
                   expect, inits, commits, written, screen>>

\* the "right" key: if m.hasMore, m.offset += OpenBatchSize and fetch again;
\* the batch size is the limit of every fetch and is positive
PageRight ==
    /\ query.phase = "fetched"
    /\ query.fromStart
    /\ query.opts.Limit >= 1
    /\ query.hasMore
    /\ query' = Fetched([query.opts EXCEPT !.Offset = @ + query.opts.Limit],
                        TRUE, query.pages)
    /\ UNCHANGED <<proc, tasks, chunkBuffer, mu, out, dbClient, opened, store,
                   expect, inits, commits, written, screen>>

\* writeJSON: h.mu.Lock(), json.Marshal, h.out.Write(bytes)
writeJSON(t) ==
    /\ Alive
    /\ tasks[t].pc = "writeJSON"
    /\ mu = 0
    /\ mu' = t
    /\ out' = WriteBytes(out, t)
    /\ SetTask(t, [tasks[t] EXCEPT !.pc = "writeNewline"])
    /\ UNCHANGED <<proc, chunkBuffer, dbClient, opened, store,
                   expect, inits, commits, query, written, screen>>

\* writeJSON: h.out.Write("\n"), the deferred h.mu.Unlock(); handleLine returns
writeNewline(t) ==
    /\ Alive
    /\ tasks[t].pc = "writeNewline"
    /\ out' = WriteNewline(out, t)
    /\ mu' = 0
    /\ SetTask(t, Done)
    /\ UNCHANGED <<proc, chunkBuffer, dbClient, opened, store,
                   expect, inits, commits, query, written, screen>>

(***************************************************************************)
(* Specifications.                                                         *)
(***************************************************************************)
\* the process on any input
Next ==
    \/ RunScan
    \/ RunSkipEmpty
    \/ RunReturn
    \/ \E t \in TaskIds : handleLine(t)
    \/ \E t \in TaskIds : handlePutValue(t)
    \/ \E t \in TaskIds : handlePutChunk(t)
    \/ \E t \in TaskIds : handlePutCommit(t)
    \/ \E t \in TaskIds : OpenDB(t)
    \/ \E t \in TaskIds : CloseDB(t)
    \/ \E t \in TaskIds : GetValue(t)
    \/ \E t \in TaskIds : GetValueTxn(t)
    \/ \E t \in TaskIds : SetValue(t)
    \/ \E t \in TaskIds : SetValueTxn(t)
    \/ \E t \in TaskIds : DeleteKey(t)
    \/ \E t \in TaskIds : DeleteKeyTxn(t)
    \/ \E t \in TaskIds : ListKeys(t)
    \/ \E t \in TaskIds : ListKeysTxn(t)
    \/ \E t \in TaskIds : writeJSON(t)
    \/ \E t \in TaskIds : writeNewline(t)

Spec == Init /\ [][Next]_vars

\* the process while a client uploads values in chunks
NextSession ==
    \/ RunScanSession
    \/ \E t \in TaskIds : handleLine(t)
    \/ \E t \in TaskIds : handlePutValue(t)
    \/ \E t \in TaskIds : handlePutChunk(t)
    \/ \E t \in TaskIds : handlePutCommit(t)
    \/ \E t \in TaskIds : CloseDB(t)
    \/ \E t \in TaskIds : SetValue(t)
    \/ \E t \in TaskIds : SetValueTxn(t)
    \/ \E t \in TaskIds : writeJSON(t)
    \/ \E t \in TaskIds : writeNewline(t)

SpecSession == Init /\ [][NextSession]_vars

\* the steps of goroutine t
TaskStep(t) ==
    \/ handleLine(t)
    \/ handlePutValue(t)
    \/ handlePutChunk(t)
    \/ handlePutCommit(t)
    \/ SetValue(t)
    \/ SetValueTxn(t)
    \/ writeJSON(t)
    \/ writeNewline(t)

\* the upload requests, which take the handler lock and the store lock
LockLines == {l \in SessionLines : l.type # "close_db"}

RunScanLocks == Scan(LockLines, MaxLockLines, MaxActive)

NextLocks ==
    \/ RunScanLocks
    \/ \E t \in TaskIds : TaskStep(t)

\* the Go scheduler runs every runnable goroutine, and a sync.Mutex hands
\* the lock to a waiter that has been starved (starvation mode), so a
\* goroutine that can take a step again and again takes one
SpecLocks ==
    /\ Init
    /\ [][NextLocks]_vars
    /\ \A t \in 1..MaxLockLines : SF_vars(t \in TaskIds /\ TaskStep(t))

\* the same with a client that waits for each response
NextSequential ==
    \/ RunScanSequential
    \/ RunSkipEmpty
    \/ RunReturn
    \/ \E t \in TaskIds : handleLine(t)
    \/ \E t \in TaskIds : handlePutValue(t)
    \/ \E t \in TaskIds : handlePutChunk(t)
    \/ \E t \in TaskIds : handlePutCommit(t)
    \/ \E t \in TaskIds : OpenDB(t)
    \/ \E t \in TaskIds : CloseDB(t)
    \/ \E t \in TaskIds : GetValue(t)
    \/ \E t \in TaskIds : GetValueTxn(t)
    \/ \E t \in TaskIds : SetValue(t)
    \/ \E t \in TaskIds : SetValueTxn(t)
    \/ \E t \in TaskIds : DeleteKey(t)
    \/ \E t \in TaskIds : DeleteKeyTxn(t)
    \/ \E t \in TaskIds : ListKeys(t)
    \/ \E t \in TaskIds : ListKeysTxn(t)
    \/ \E t \in TaskIds : writeJSON(t)
    \/ \E t \in TaskIds : writeNewline(t)

\* the store directory may be an existing database: it holds "k2", a key
\* that has "k" as a prefix
InitialStores == {EmptyMap, MapPut(EmptyMap, KeyK2, [val |-> <<65>>, ttl |-> 0])}

History(kv) ==
    [k \in DOMAIN kv |-> [val |-> kv[k].val, ttl |-> kv[k].ttl, live |-> TRUE]]

InitSequential ==
    /\ proc = "running"
    /\ tasks = <<>>
    /\ chunkBuffer = EmptyMap
    /\ mu = 0
    /\ out = [lines |-> 0, torn |-> 0, cur |-> <<>>]
    /\ \E isOpen \in BOOLEAN :
         /\ dbClient = IF isOpen THEN [db |-> 1, path |-> PathD]
                       ELSE [db |-> 0, path |-> ""]
         /\ opened = IF isOpen THEN 1 ELSE 0
    /\ store \in InitialStores
    /\ expect = EmptyMap
    /\ inits = [s \in SessionIds |-> 0]
    /\ commits = [s \in SessionIds |-> 0]
    /\ query = NoQuery
    /\ written = History(store)
    /\ screen = NoScreen

SpecSequential == InitSequential /\ [][NextSequential]_vars

(***************************************************************************)
(* DBMainModel: the key list screen of the standalone mode.                *)
(***************************************************************************)
\* m.cfg.DB.OpenBatchSize, scaled down to one row a page
OpenBatchSize == 1

\* fetchKeysCmd: the options of the call, read from the model when the
\* command is made
fetchKeysCmd(m) ==
    [Prefix |-> m.search, Mode |-> m.searchMode, SortDesc |-> m.sortDesc,
     Limit |-> OpenBatchSize, Offset |-> m.offset, StartKey |-> <<>>,
     PreviewChars |-> DefaultPreviewLen]

\* cmds = append(cmds, m.fetchKeysCmd()): the runtime starts the command
\* in a goroutine of its own
Issue(m) ==
    [m EXCEPT !.issued = @ + 1,
              !.cmds = @ \cup {[id |-> m.issued + 1, opts |-> fetchKeysCmd(m)]}]

\* no more than MaxFetches fetches are issued
MayFetch == screen.issued < MaxFetches

ScreenFrame ==
    UNCHANGED <<proc, tasks, chunkBuffer, mu, out, dbClient, opened, store,
                   expect, inits, commits, query, written>>

\* "s": toggle the sort direction
KeySort ==
    /\ MayFetch
    /\ ~screen.focused
    /\ screen' = Issue([screen EXCEPT !.sortDesc = ~@, !.offset = 0])
    /\ ScreenFrame

\* the mode after "ctrl+f"
NextMode(mode) ==
    CASE mode = "prefix" -> "substring"
      [] mode = "substring" -> "regex"
      [] mode = "regex" -> "prefix"
      [] OTHER -> mode

\* "ctrl+f": next search mode, in the search box or not
KeyMode ==
    /\ MayFetch
    /\ screen' = Issue([screen EXCEPT !.searchMode = NextMode(@), !.offset = 0])
    /\ ScreenFrame

\* "right" / "l"
KeyRight ==
    /\ MayFetch
    /\ ~screen.focused
    /\ screen.hasMore
    /\ screen' = Issue([screen EXCEPT !.offset = @ + OpenBatchSize])
    /\ ScreenFrame

\* "left" / "h"
KeyLeft ==
    /\ MayFetch
    /\ ~screen.focused
    /\ screen.offset > 0
    /\ screen' = Issue([screen EXCEPT
                            !.offset = IF @ - OpenBatchSize < 0 THEN 0
                                       ELSE @ - OpenBatchSize])
    /\ ScreenFrame

\* "/": focus the search box
KeySlash ==
    /\ ~screen.focused
    /\ screen' = [screen EXCEPT !.focused = TRUE, !.tableFocused = FALSE]
    /\ ScreenFrame

\* "esc" in the search box: back to the table
KeyEsc ==
    /\ screen.focused
    /\ screen' = [screen EXCEPT !.focused = FALSE, !.tableFocused = TRUE]
    /\ ScreenFrame

\* "enter" in the search box while the table is blurred: search now,
\* pending ticks become void (with the table focused it opens the detail
\* screen instead)
KeyEnter ==
    /\ MayFetch
    /\ ~screen.tableFocused
    /\ screen.focused
    /\ screen' = [Issue([screen EXCEPT !.offset = 0, !.searchID = @ + 1])
                     EXCEPT !.focused = FALSE, !.tableFocused = TRUE]
    /\ ScreenFrame

\* a key typed in the search box changes its text: a tick is scheduled
KeyText ==
    /\ screen.focused
    /\ screen.searchID < MaxFetches
    /\ \E text \in SearchTexts \ {screen.search} :
          screen' = [screen EXCEPT !.search = text, !.searchID = @ + 1,
                                   !.ticks = @ \cup {screen.searchID + 1}]
    /\ ScreenFrame

\* SearchTickMsg{ID}: fetch if no key or enter has come since
SearchTick ==
    /\ \E id \in screen.ticks :
          LET m == [screen EXCEPT !.ticks = @ \ {id}]
          IN  /\ id = screen.searchID => MayFetch
              /\ IF id = screen.searchID
                 THEN screen' = Issue([m EXCEPT !.offset = 0])
                 ELSE screen' = m
    /\ ScreenFrame

\* KeysFetchedMsg of a command in flight: the commands finish in any order
KeysFetched ==
    /\ \E c \in screen.cmds :
          LET r == ListKeysCall(dbClient, store, c.opts)
              m == [screen EXCEPT !.cmds = @ \ {c}]
          IN  IF r.err # NoErr
              THEN screen' = [m EXCEPT !.err = r.err]
              ELSE screen' = [m EXCEPT !.keys = Keys(r.items),
                                       !.hasMore = r.hasMore, !.shown = c.id]
    /\ ScreenFrame

\* the stores the screen is opened on: two keys, or all four
ScreenStores == {kv \in KeyStores : DOMAIN kv \in {{KeyA, KeyB}, StoredKeys}}

\* DBMainModel.Init on an open store: the first fetch is issued
InitScreen ==
    /\ proc = "running"
    /\ tasks = <<>>
    /\ chunkBuffer = EmptyMap
    /\ mu = 0
    /\ out = [lines |-> 0, torn |-> 0, cur |-> <<>>]
    /\ dbClient = [db |-> 1, path |-> PathD]
    /\ opened = 1
    /\ store \in ScreenStores
    /\ expect = EmptyMap
    /\ inits = [s \in SessionIds |-> 0]
    /\ commits = [s \in SessionIds |-> 0]
    /\ query = NoQuery
    /\ written = EmptyMap
    /\ screen = Issue(NoScreen)

NextScreen ==
    \/ KeySort
    \/ KeyMode
    \/ KeyRight
    \/ KeyLeft
    \/ KeySlash
    \/ KeyEsc
    \/ KeyEnter
    \/ KeyText
    \/ SearchTick
    \/ KeysFetched

SpecScreen == InitScreen /\ [][NextScreen]_vars

\* ListKeys called in process on an existing store that is open
InitListKeys ==
    /\ proc = "running"
    /\ tasks = <<>>
    /\ chunkBuffer = EmptyMap
    /\ mu = 0
    /\ out = [lines |-> 0, torn |-> 0, cur |-> <<>>]
    /\ dbClient = [db |-> 1, path |-> PathD]
    /\ opened = 1
    /\ store \in Stores
    /\ expect = EmptyMap
    /\ inits = [s \in SessionIds |-> 0]
    /\ commits = [s \in SessionIds |-> 0]
    /\ query = NoQuery
    /\ written = EmptyMap
    /\ screen = NoScreen

NextListKeys ==
    \/ CallListKeys
    \/ PageRight

SpecListKeys == InitListKeys /\ [][NextListKeys]_vars

(***************************************************************************)
(* Properties of the chunked-write sessions and of the dispatcher.         *)
(***************************************************************************)
\* the response of a request that named no session of the table
UnknownSessionResp(req) == sendError(req.id, CodeError, ErrUnknownSession(req.sid))

\* task t leaves the program point pc in this step
Leaves(t, pc) == tasks[t].pc = pc /\ tasks'[t].pc # pc

\* C1: when the requests of a session are handled one after another, the value
\* a put_commit stores is the concatenation of the plain payloads of the
\* put_chunk requests made since the session's put_value, in the order of the
\* calls, whatever their chunk_index.
C1_RoundTrip ==
    \A t \in TaskIds : tasks[t].wrote => tasks[t].stored = tasks[t].expected

\* a commit has stored the chunk with index 1 followed by the chunk with index 0
C1_Witness ==
    \E t \in TaskIds : tasks[t].wrote /\ tasks[t].stored = <<65, 66, 67>>

\* C2: a put_commit on an id with no session (never begun by put_value, or
\* committed since) answers the unknown-session error, obtains no buffer and
\* leaves the table and the store as they were.
C2_CommitSingleShot ==
    [][\A t \in TaskIds :
          (Leaves(t, "handlePutCommit") /\ tasks[t].req.sid \notin DOMAIN expect)
          => /\ tasks'[t].pc = "writeJSON"
             /\ ~tasks'[t].ok
             /\ tasks'[t].resp = UnknownSessionResp(tasks[t].req)
             /\ chunkBuffer' = chunkBuffer
             /\ store' = store]_vars

\* a second put_commit on a committed id is about to answer the error
C2_Witness ==
    \E t \in TaskIds :
        /\ tasks[t].req.type = "put_commit"
        /\ tasks[t].pc = "writeJSON"
        /\ tasks[t].resp = UnknownSessionResp(tasks[t].req)
        /\ commits[tasks[t].req.sid] >= 1

\* C3: of the put_commit requests on a session id, running concurrently, at
\* most one per put_value obtains the buffer and goes on to SetValue; each
\* other one answers the unknown-session error.
C3_OneCommitWins ==
    /\ \A s \in SessionIds : commits[s] <= inits[s]
    /\ \A t \in TaskIds :
          (tasks[t].req.type = "put_commit"
              /\ tasks[t].pc \in {"writeJSON", "writeNewline"} /\ ~tasks[t].ok)
          => tasks[t].resp = UnknownSessionResp(tasks[t].req)

\* two commits of one session are in flight: one holds the buffer, the other
\* holds the error
C3_Witness ==
    \E t1, t2 \in TaskIds :
        /\ tasks[t1].req.type = "put_commit" /\ tasks[t2].req.type = "put_commit"
        /\ tasks[t1].req.sid = tasks[t2].req.sid
        /\ tasks[t1].ok /\ tasks[t1].pc \in {"SetValue", "SetValueTxn"}
        /\ ~tasks[t2].ok /\ tasks[t2].pc = "writeJSON"
        /\ tasks[t2].resp = UnknownSessionResp(tasks[t2].req)

\* C4: two put_chunk lines of one session, both appended: the bytes of the
\* line read first lie before the bytes of the line read later.
C4_ArrivalOrder ==
    \A t1, t2 \in TaskIds :
        (/\ t1 < t2
         /\ tasks[t1].req = tasks[t1].line /\ tasks[t2].req = tasks[t2].line
         /\ tasks[t1].req.type = "put_chunk" /\ tasks[t2].req.type = "put_chunk"
         /\ tasks[t1].req.sid = tasks[t2].req.sid
         /\ tasks[t1].pc = "writeJSON" /\ tasks[t2].pc = "writeJSON"
         /\ tasks[t1].resp.code = 0 /\ tasks[t2].resp.code = 0
         /\ tasks[t1].gen = tasks[t2].gen)
        => tasks[t1].at < tasks[t2].at

\* C5: a put_chunk on an id that is not in the table answers the
\* unknown-session error and changes neither the table nor the store.
C5_UnknownChunkNoEffect ==
    [][\A t \in TaskIds :
          (Leaves(t, "handlePutChunk") /\ tasks[t].req.sid \notin DOMAIN chunkBuffer)
          => /\ tasks'[t].pc = "writeJSON"
             /\ tasks'[t].resp = UnknownSessionResp(tasks[t].req)
             /\ chunkBuffer' = chunkBuffer
             /\ store' = store]_vars

\* a put_chunk is about to answer the error
C5_Witness ==
    \E t \in TaskIds :
        /\ tasks[t].req.type = "put_chunk"
        /\ tasks[t].pc = "writeJSON"
        /\ tasks[t].resp = UnknownSessionResp(tasks[t].req)

\* the errors of DBClient.SetValue
StoreErrors == {ErrNotOpen, ErrDBClosed, ErrEmptyKey}

\* C6: when the store write of a commit fails, the commit answers the store's
\* error, the table is not touched (the buffer is not put back), and the
\* session stays out of the table unless a put_value has begun it again.
C6_NoRollback ==
    [][\A t \in TaskIds :
          ((Leaves(t, "SetValue") \/ Leaves(t, "SetValueTxn"))
              /\ tasks'[t].pc = "writeJSON" /\ tasks'[t].resp.code # 0)
          => /\ \E e \in StoreErrors :
                    tasks'[t].resp = sendError(tasks[t].req.id, CodeError, e)
             /\ chunkBuffer' = chunkBuffer
             /\ store' = store
             /\ (inits[tasks[t].req.sid] = tasks[t].gen
                    => tasks[t].req.sid \notin DOMAIN chunkBuffer')]_vars

\* a commit that obtained the buffer is about to answer a store error, and its
\* session is gone
C6_Witness ==
    \E t \in TaskIds :
        /\ tasks[t].ok /\ tasks[t].pc = "writeJSON"
        /\ tasks[t].resp.code = CodeError
        /\ tasks[t].req.sid \notin DOMAIN chunkBuffer

\* C7: a session id leaves the table only in the step of a put_commit for
\* that id.
C7_OnlyCommitRemoves ==
    [][\A s \in DOMAIN chunkBuffer :
          s \notin DOMAIN chunkBuffer'
          => \E t \in TaskIds :
                 Leaves(t, "handlePutCommit") /\ tasks[t].req.sid = s]_vars

\* the session is still in the table when every line of the input has been
\* answered and the process has ended
C7_Witness ==
    /\ "s1" \in DOMAIN chunkBuffer
    /\ Len(tasks) >= 3
    /\ Active = {}
    /\ proc = "exited"

\* C8: when the process has ended, every line read has its response line.
C8_OneResponsePerLine ==
    proc # "running"
    => /\ \A t \in TaskIds : tasks[t].pc = "done"
       /\ out.lines = Len(tasks)

\* C9: a task that has not decoded its line holds the bytes of that line.
C9_OwnLine ==
    \A t \in Undecoded : tasks[t].bytes = tasks[t].line

\* C10: no line of the output is anything but one response, and the bytes on
\* the line being formed are those of the task that holds the lock.
C10_NoInterleaving ==
    /\ out.torn = 0
    /\ out.cur # <<>> => out.cur = <<mu>>

\* a response is half written while another handler waits to write
C10_Witness ==
    \E t1, t2 \in TaskIds :
        /\ tasks[t1].pc = "writeNewline"
        /\ tasks[t2].pc = "writeJSON"
        /\ out.cur = <<t1>>

(***************************************************************************)
(* Properties of the error responses.                                      *)
(***************************************************************************)
\* the failure class of a line that is answered by an error
FailureClass(line) ==
    IF line.form # "ok" THEN "malformed envelope"
    ELSE IF line.type \notin RequestKinds THEN "unknown request kind"
    ELSE "operation failed"

\* task t is about to write an error response to the line it was started for
AnswersError(t) ==
    /\ tasks[t].pc = "writeJSON"
    /\ tasks[t].req = Unmarshal(tasks[t].line).req
    /\ tasks[t].resp.type = <<"error">>

\* C11: two error responses to lines of different failure classes (malformed
\* envelope, unknown request kind, failed operation) carry different codes.
C11_DistinctCodes ==
    \A t1, t2 \in TaskIds :
        (AnswersError(t1) /\ AnswersError(t2)
            /\ FailureClass(tasks[t1].line) # FailureClass(tasks[t2].line))
        => tasks[t1].resp.code # tasks[t2].resp.code

\* the line of task t is malformed or of an unknown kind, and t decodes it in
\* this step
RejectsLine(t) ==
    /\ Leaves(t, "handleLine")
    /\ tasks[t].bytes = tasks[t].line
    /\ FailureClass(tasks[t].line) # "operation failed"

\* the error response with a code and a message, and no effect
RejectedWith(t, id) ==
    /\ tasks'[t].pc = "writeJSON"
    /\ tasks'[t].resp.type = <<"error">>
    /\ tasks'[t].resp.id = id
    /\ tasks'[t].resp.code \in {CodeInvalidRequest, CodeError}
    /\ tasks'[t].resp.msg # NoErr
    /\ chunkBuffer' = chunkBuffer
    /\ store' = store

Satisfies(opts, key) ==
    CASE opts.Mode = "substring" -> Contains(key, opts.Prefix)
      [] opts.Mode = "regex" -> RegexMatch(RegexCompile(opts.Prefix), key)
      [] OTHER -> HasPrefix(key, opts.Prefix)

\* the matched ordering: the keys of kv that satisfy the predicate, in the
\* store's key order, reversed when descending
Matched(kv, opts) ==
    LET asc == SelectSeq(SortKeys(DOMAIN kv), LAMBDA k : Satisfies(opts, k))
    IN  IF opts.SortDesc THEN Reverse(asc) ELSE asc

\* positions offset .. offset+limit-1 of seq, counted from 0
Window(seq, offset, limit) ==
    LET last == IF offset + limit < Len(seq) THEN offset + limit ELSE Len(seq)
    IN  IF offset >= last THEN <<>> ELSE SubSeq(seq, offset + 1, last)

\* a ListKeys call has returned a page: no startKey, limit >= 1, no error
PageOf(modes) ==
    /\ query.phase = "fetched"
    /\ query.opts.Mode \in modes
    /\ query.opts.StartKey = <<>>
    /\ query.opts.Limit >= 1
    /\ query.err = NoErr

\* C13: a mode=prefix page is the window offset .. offset+limit-1 of the
\* keys that start with the pattern, in the matched ordering.
C13_PrefixComplete ==
    PageOf({"prefix"})
    => Keys(query.items)
         = Window(Matched(store, query.opts), query.opts.Offset, query.opts.Limit)

\* C14: a mode=substring or mode=regex page is the window offset ..
\* offset+limit-1 of the keys that contain, or match, the pattern.
C14_SubstringRegexComplete ==
    PageOf({"substring", "regex"})
    => Keys(query.items)
         = Window(Matched(store, query.opts), query.opts.Offset, query.opts.Limit)

\* pages have been fetched from offset 0 on, each at the offset after the
\* one before
Paging ==
    /\ query.phase = "fetched"
    /\ query.fromStart
    /\ query.opts.Limit >= 1
    /\ query.err = NoErr

\* C15: the pages fetched at offsets 0, L, 2L, ... up to a page with
\* has_more false hold the matched keys once each, in the matched ordering,
\* and a page with has_more true is not the last page with rows.
C15_Pagination ==
    Paging
    => /\ ~query.hasMore => query.pages = Matched(store, query.opts)
       /\ query.hasMore => Len(query.pages) < Len(Matched(store, query.opts))

\* the position of key in the iteration order of the query
PositionOf(key) ==
    LET it == IterKeys(store, query.opts.SortDesc)
    IN  CHOOSE i \in 1..Len(it) : it[i] = key

\* C16: hasMore is true only if a key after the last returned row, in
\* iteration order, satisfies the predicate.
C16_HasMoreExact ==
    (query.phase = "fetched" /\ query.hasMore)
    => LET it == IterKeys(store, query.opts.SortDesc)
           last == PositionOf(query.items[Len(query.items)].Key)
       IN  \E i \in (last + 1)..Len(it) : Satisfies(query.opts, it[i])

\* C17: with offset 0 and a limit no smaller than the number of matches, the
\* descending result is the reverse of the ascending result.
C17_DescendingIsReverse ==
    (PageOf(Modes) /\ query.opts.Offset = 0
        /\ Len(Matched(store, query.opts)) <= query.opts.Limit)
    => LET other == ListKeysCall(dbClient, store,
                                 [query.opts EXCEPT !.SortDesc = ~@])
       IN  Keys(query.items) = Reverse(Keys(other.items))

\* C18: the rows of a page are strictly increasing by key, strictly
\* decreasing when sortDescending.
C18_NativeOrder ==
    query.phase = "fetched"
    => \A i, j \in 1..Len(query.items) :
           i < j => IF query.opts.SortDesc
                    THEN KeyLess(query.items[j].Key, query.items[i].Key)
                    ELSE KeyLess(query.items[i].Key, query.items[j].Key)

\* a descending page of three rows
C18_Witness ==
    /\ query.phase = "fetched"
    /\ query.opts.SortDesc
    /\ Len(query.items) >= 3

\* C19: a page has at most limit rows.
C19_LimitBoundsPage ==
    query.phase = "fetched" => Len(query.items) <= query.opts.Limit

\* the keys at or after startKey in iteration order that satisfy the
\* predicate
MatchedFrom(kv, opts) ==
    SelectSeq(Matched(kv, opts),
              LAMBDA k : IF opts.SortDesc THEN ~KeyLess(opts.StartKey, k)
                         ELSE ~KeyLess(k, opts.StartKey))

\* C20: with a startKey the offset is ignored (the result is that of offset
\* 0) and the first row is the first key at or after startKey, startKey
\* included, that satisfies the predicate.
C20_StartKeyResumes ==
    (query.phase = "fetched" /\ query.opts.StartKey # <<>> /\ query.err = NoErr)
    => LET zero == ListKeysCall(dbClient, store, [query.opts EXCEPT !.Offset = 0])
           from == MatchedFrom(store, query.opts)
       IN  /\ query.items = zero.items
           /\ query.hasMore = zero.hasMore
           /\ (query.items = <<>>) = (from = <<>>)
           /\ query.items # <<>> => query.items[1].Key = from[1]

\* a call with a startKey that is a matching key and an offset: the first row
\* is startKey
C20_Witness ==
    /\ query.phase = "fetched"
    /\ query.opts.StartKey = KeyAB
    /\ query.opts.Offset > 0
    /\ Len(query.items) >= 2
    /\ query.items[1].Key = KeyAB

\* ---------------------------------------------------------------------------
\* Failures of the store handle: queries, open, close, delete
\* ---------------------------------------------------------------------------

\* "(" is no regular expression
BadPattern == <<40>>

\* C21: a regex-mode query whose pattern does not compile fails with the
\* invalid-pattern error, no rows and hasMore false, whatever the store
\* holds; and any ListKeys call that returns an error returns no rows and
\* hasMore false
C21_ErrorOrPage ==
    query.phase = "fetched" =>
        /\ (query.opts.Mode = "regex" /\ query.opts.Prefix = BadPattern)
               => /\ query.err = Msg("invalid regex")
                  /\ query.items = <<>>
                  /\ ~query.hasMore
        /\ query.err # NoErr => (query.items = <<>> /\ ~query.hasMore)

\* an invalid pattern was run against a store that holds keys
C21_Witness ==
    /\ query.phase = "fetched"
    /\ query.opts.Mode = "regex"
    /\ query.opts.Prefix = BadPattern
    /\ query.opts.Limit >= 1
    /\ query.err # NoErr
    /\ DOMAIN store = StoredKeys

\* the entry points of the four store operations
StoreCalls == {"ListKeys", "GetValue", "SetValue", "DeleteKey"}

\* C22: on a handle with no open store, ListKeys, GetValue, SetValue and
\* DeleteKey each answer the not-open error without starting a transaction,
\* and leave the handle and the store as they were.
C22_NotOpenFails ==
    [][\A t \in TaskIds : \A fn \in StoreCalls :
          (Leaves(t, fn) /\ ~IsOpen(dbClient))
          => /\ tasks'[t].pc = "writeJSON"
             /\ tasks'[t].resp = sendError(tasks[t].req.id, CodeError, ErrNotOpen)
             /\ dbClient' = dbClient
             /\ opened' = opened
             /\ store' = store]_vars

\* a list_keys request has been refused on a handle whose store was closed
\* after it had been open
C22_Witness ==
    \E t \in TaskIds :
        /\ tasks[t].req.type = "list_keys"
        /\ tasks[t].pc = "writeJSON"
        /\ tasks[t].resp.msg = ErrNotOpen
        /\ opened >= 1

\* C23: Open on a handle that holds an open store answers the already-open
\* error and leaves the handle as it was; Open of a path that does not exist
\* fails and leaves the handle closed, and an Open of an existing path on
\* the handle it leaves succeeds when the engine opens the directory.
C23_OpenFailures ==
    [][\A t \in TaskIds :
          Leaves(t, "Open")
          => /\ IsOpen(dbClient)
                  => /\ tasks'[t].resp
                            = sendError(tasks[t].req.id, CodeError, ErrAlreadyOpen)
                     /\ dbClient' = dbClient
                     /\ opened' = opened
             /\ (~IsOpen(dbClient) /\ tasks[t].req.path \notin ExistingPaths)
                  => /\ tasks'[t].resp.code = CodeError
                     /\ tasks'[t].resp.msg = ErrNoDir(tasks[t].req.path)
                     /\ dbClient' = dbClient
                     /\ ~IsOpen(dbClient')
                     /\ LET later == Open(dbClient', opened', PathD, TRUE)
                        IN  /\ later.err = NoErr
                            /\ IsOpen(later.c)
                            /\ GetPath(later.c) = PathD]_vars

\* an open_db of an existing path is refused while a store is open
C23_Witness ==
    \E t \in TaskIds :
        /\ tasks[t].req.type = "open_db"
        /\ tasks[t].req.path = PathD
        /\ tasks[t].pc = "writeJSON"
        /\ tasks[t].resp.msg = ErrAlreadyOpen
        /\ GetPath(dbClient) = PathD

\* C24: Close on a handle with nothing open succeeds and changes nothing;
\* after any Close (a close_db request, or the deferred Close of main) the
\* handle is not open and its path is empty; a second Close leaves the
\* state of the first.
C24_CloseIdempotent ==
    [][/\ \A t \in TaskIds :
             Leaves(t, "Close")
             => /\ ~IsOpen(dbClient')
                /\ GetPath(dbClient') = ""
                /\ Close(dbClient').c = dbClient'
                /\ Close(dbClient').err = NoErr
                /\ ~IsOpen(dbClient)
                     => /\ dbClient' = dbClient
                        /\ opened' = opened
                        /\ store' = store
                        /\ tasks'[t].resp = Reply(tasks[t].req, <<>>, NoErr)
       /\ (proc = "running" /\ proc' = "exited")
             => (~IsOpen(dbClient') /\ GetPath(dbClient') = "")]_vars

\* a close_db has succeeded on a handle that never held a store
C24_Witness ==
    \E t \in TaskIds :
        /\ tasks[t].req.type = "close_db"
        /\ tasks[t].pc = "writeJSON"
        /\ tasks[t].resp.code = 0
        /\ opened = 0

\* C25: a delete on an open store succeeds, and leaves the store as it was
\* when the key is absent; a delete fails only when the store is not open.
C25_DeleteFailsOnlyClosed ==
    [][\A t \in TaskIds :
          (Leaves(t, "DeleteKeyTxn") /\ ~Closed(tasks[t].db))
          => /\ tasks'[t].resp.code = 0
             /\ tasks[t].req.key \notin DOMAIN store => store' = store]_vars

\* ---------------------------------------------------------------------------
\* What the store holds: set, get, delete
\* ---------------------------------------------------------------------------

\* a get_value request that ran its transaction is about to be answered
Got(t) ==
    /\ tasks[t].req.type = "get_value"
    /\ tasks[t].req.pvalid
    /\ tasks[t].pc = "writeJSON"
    /\ tasks[t].resp.msg # ErrNotOpen

\* C26: after a value has been stored under k with no expiry, and k has not
\* been set or deleted since, a get of k on the open store succeeds and
\* returns exactly that value, also when the store holds other keys that
\* begin with k.
C26_SetGetRoundTrip ==
    \A t \in TaskIds :
        LET k == tasks[t].req.key
        IN  (Got(t) /\ k \in DOMAIN written /\ written[k].live
                    /\ written[k].ttl <= 0)
            => /\ tasks[t].resp.code = 0
               /\ tasks[t].resp.type = <<"get_value", "_resp">>
               /\ DecodeString(tasks[t].resp.result).ok
               /\ DecodeString(tasks[t].resp.result).bytes = written[k].val

\* "BC" was stored under "k" while the store held "k2", and a get of "k"
\* is answered
C26_Witness ==
    \E t \in TaskIds :
        /\ Got(t)
        /\ tasks[t].req.key = KeyK
        /\ KeyK \in DOMAIN written
        /\ written[KeyK].live
        /\ written[KeyK].val = <<66, 67>>
        /\ KeyK2 \in DOMAIN store

\* the keys of the rows of a list_keys response
RowKeys(resp) == {resp.result[1][i].Key : i \in 1..Len(resp.result[1])}

\* C27: after a delete of k has succeeded, and k has not been written
\* since, a get of k on the open store fails with the not-found error and
\* no list_keys response has a row for k.
C27_DeletedIsGone ==
    \A t \in TaskIds :
        /\ LET k == tasks[t].req.key
           IN  (Got(t) /\ k \in DOMAIN written /\ ~written[k].live)
               => tasks[t].resp
                     = sendError(tasks[t].req.id, CodeError, ErrKeyNotFound)
        /\ (tasks[t].req.type = "list_keys" /\ tasks[t].req.pvalid
               /\ tasks[t].pc = "writeJSON" /\ tasks[t].resp.code = 0)
           => \A k \in DOMAIN written :
                  ~written[k].live => k \notin RowKeys(tasks[t].resp)

\* "k" was stored, then deleted, and a get of "k" is answered
C27_Witness ==
    \E t \in TaskIds :
        /\ Got(t)
        /\ tasks[t].req.key = KeyK
        /\ KeyK \in DOMAIN written
        /\ ~written[KeyK].live
        /\ tasks[t].resp.code = CodeError

\* the lifetime the store records for a ttl parameter: none when ttl <= 0
Lifetime(ttl) == IF ttl > 0 THEN ttl ELSE 0

\* C29: the entry a commit writes has the key and the ttl of the put_commit
\* request and the payloads of the chunks, and no other key changes; the
\* key, value_length and ttl of the put_value request appear nowhere in the
\* store; the put_value step itself does not write the store.
C29_CommitNamesKeyAndTTL ==
    [][\A t \in TaskIds :
          /\ (Leaves(t, "SetValueTxn") /\ tasks'[t].resp.code = 0)
              => /\ tasks[t].line.type = "put_commit"
                 /\ store' = MapPut(store, tasks[t].line.key,
                                    [val |-> tasks[t].expected,
                                     ttl |-> Lifetime(tasks[t].line.ttl)])
                 /\ KeyP \notin DOMAIN store'
          /\ Leaves(t, "handlePutValue") => store' = store]_vars

\* a session begun by a put_value naming "p" with ttl 5 was committed under
\* "k2" with ttl 7
C29_Witness ==
    /\ KeyK2 \in DOMAIN store
    /\ store[KeyK2].ttl = 7
    /\ commits["s1"] >= 1
    /\ \A l \in PutValueLines : l.key = KeyP /\ l.ttl = 5

\* ---------------------------------------------------------------------------
\* The rows of a page: filter and value preview
\* ---------------------------------------------------------------------------

\* the text "[Binary n bytes]"; the digits of the lengths of Values are
\* written out
BinaryText(n) ==
    <<91, 66, 105, 110, 97, 114, 121, 32>>
        \o (CASE n = 3 -> <<51>>
              [] n = 512 -> <<53, 49, 50>>
              [] n = 513 -> <<53, 49, 51>>
              [] OTHER -> Decimal(n))
        \o <<32, 98, 121, 116, 101, 115, 93>>

\* the preview of value v for previewChars p
ExpectedPreview(v, p) ==
    LET q == IF p <= 0 THEN 100 ELSE p
        head == IF Len(v) < 512 THEN Len(v) ELSE 512
    IN  IF \E i \in 1..head : v[i] = 0 THEN BinaryText(Len(v))
        ELSE IF Len(v) <= q THEN v
        ELSE SubSeq(v, 1, q) \o <<46, 46, 46>>

MatchingOnly(kv, opts) ==
    [k \in {j \in DOMAIN kv : Satisfies(opts, j)} |-> kv[k]]

\* C30: the rows of a page are those the same call returns on the store
\* without its non-matching keys: keys that fail the predicate use up
\* neither offset nor limit, wherever they lie in the key space.
C30_NonMatchingIgnored ==
    (query.phase = "fetched" /\ query.err = NoErr)
    => query.items
         = ListKeysCall(dbClient, MatchingOnly(store, query.opts), query.opts).items

\* a page with an offset was fetched from a store in which a key that fails
\* the predicate lies before and between keys that satisfy it
C30_Witness ==
    /\ query.phase = "fetched"
    /\ query.err = NoErr
    /\ query.opts.Mode = "substring"
    /\ query.opts.Prefix = KeyB
    /\ ~query.opts.SortDesc
    /\ query.opts.Offset = 1
    /\ query.opts.StartKey = <<>>
    /\ DOMAIN store = StoredKeys
    /\ Keys(query.items) = <<KeyB>>

\* ---------------------------------------------------------------------------
\* The scan: early exit, seek position, limit, unknown modes
\* ---------------------------------------------------------------------------

\* the scan loop without the early exit: every key from position i is visited
RECURSIVE ScanLoop(_, _, _, _, _, _, _)
ScanLoop(kv, it, i, skipped, items, opts, re) ==
    IF i > Len(it) THEN [items |-> items, hasMore |-> FALSE]
    ELSE IF ~KeyMatches(opts, re, it[i])
    THEN ScanLoop(kv, it, i + 1, skipped, items, opts, re)
    ELSE IF opts.StartKey = <<>> /\ skipped < opts.Offset
    THEN ScanLoop(kv, it, i + 1, skipped + 1, items, opts, re)
    ELSE LET more == Append(items, KeyItem(it[i], kv[it[i]], opts))
         IN  IF Len(more) >= opts.Limit
             THEN [items |-> more, hasMore |-> i + 1 <= Len(it)]
             ELSE ScanLoop(kv, it, i + 1, skipped, more, opts, re)

\* the result of the call when no key ends the scan early
ScanAll(kv, opts) ==
    LET it == IterKeys(kv, opts.SortDesc)
    IN  ScanLoop(kv, it, Seek(it, StartKeyOf(opts), opts.SortDesc), 0, <<>>,
                 opts, RegexCompile(opts.Prefix))

AscendingPrefix(opts) ==
    opts.Mode = "prefix" /\ ~opts.SortDesc /\ opts.Prefix # <<>>

\* C31: the rows of an ascending mode=prefix query with a non-empty pattern
\* are the rows of the scan that visits every key from the seek position;
\* in every other mode and direction no key ends the scan early, so rows
\* and hasMore are those of the full scan.
C31_EarlyExitLosesNothing ==
    (query.phase = "fetched" /\ query.err = NoErr)
    => LET full == ScanAll(store, query.opts)
       IN  /\ query.items = full.items
           /\ ~AscendingPrefix(query.opts) => query.hasMore = full.hasMore

\* an ascending prefix query for "a" stopped at "b" with room left in the
\* page, and a key lies beyond "b"
C31_Witness ==
    /\ query.phase = "fetched"
    /\ AscendingPrefix(query.opts)
    /\ query.opts.Prefix = KeyA
    /\ query.opts.Limit = MaxLimit
    /\ query.opts.Offset = 0
    /\ query.opts.StartKey = <<>>
    /\ DOMAIN store = StoredKeys
    /\ Keys(query.items) = <<KeyA, KeyAB>>
    /\ ~query.hasMore

\* the key the iterator stands on after the Seek of the call, <<>> when the
\* iterator is not valid
FirstVisited(kv, opts) ==
    LET it == IterKeys(kv, opts.SortDesc)
        i == Seek(it, StartKeyOf(opts), opts.SortDesc)
    IN  IF i <= Len(it) THEN <<it[i]>> ELSE <<>>

\* C32: with no startKey, a descending substring or regex scan of a
\* non-empty store starts on the greatest key of the store, so the rows are
\* drawn from all matching keys.
C32_DescendingStartsAtLast ==
    (/\ query.phase = "fetched"
     /\ query.opts.Mode \in {"substring", "regex"}
     /\ query.opts.SortDesc
     /\ query.opts.StartKey = <<>>
     /\ store # EmptyMap)
    => /\ FirstVisited(store, query.opts) # <<>>
       /\ \A k \in DOMAIN store :
              k = FirstVisited(store, query.opts)[1]
                 \/ KeyLess(k, FirstVisited(store, query.opts)[1])
       /\ (query.err = NoErr /\ query.opts.Limit >= 1)
              => Keys(query.items)
                   = Window(Matched(store, query.opts), query.opts.Offset,
                            query.opts.Limit)

\* the matching keys a call may return: those at or after startKey, or
\* those after the first Offset ones when there is no startKey
Remaining(kv, opts) ==
    IF opts.StartKey # <<>> THEN MatchedFrom(kv, opts)
    ELSE LET m == Matched(kv, opts)
         IN  IF opts.Offset >= Len(m) THEN <<>>
             ELSE SubSeq(m, opts.Offset + 1, Len(m))

\* C38: with limit <= 0 the call returns exactly one row when at least one
\* key matches after the offset, and no row otherwise.
C38_NoLimitOneRow ==
    (query.phase = "fetched" /\ query.err = NoErr /\ query.opts.Limit <= 0)
    => Len(query.items)
         = IF Remaining(store, query.opts) # <<>> THEN 1 ELSE 0

\* a mode string that is none of the three modes
UnknownMode(opts) == opts.Mode \notin {"prefix", "substring", "regex"}

\* the call with mode "prefix", ascending, and the other options kept
AsAscendingPrefix(opts) == [opts EXCEPT !.Mode = "prefix", !.SortDesc = FALSE]

\* with no startKey a scan in an unknown mode starts on the first key of the
\* store when ascending, and where a descending substring scan starts
StartsAtEnd(kv, opts) ==
    opts.StartKey = <<>>
    => IF opts.SortDesc
       THEN FirstVisited(kv, opts)
              = FirstVisited(kv, [opts EXCEPT !.Mode = "substring"])
       ELSE FirstVisited(kv, opts)
              = (IF kv = EmptyMap THEN <<>> ELSE <<SortKeys(DOMAIN kv)[1]>>)

PrefixedBelowSentinel(kv, opts) ==
    SelectSeq(Reverse(SortKeys(DOMAIN kv)),
              LAMBDA k : HasPrefix(k, opts.Prefix) /\ ~KeyLess(<<255>>, k))

Appended(t) ==
    /\ tasks[t].req.type = "put_chunk"
    /\ tasks[t].pc \in {"writeJSON", "writeNewline"}
    /\ tasks[t].resp.code = 0

\* a put_commit that has taken the buffer and not yet returned
TookBuffer(t) ==
    /\ tasks[t].req.type = "put_commit"
    /\ tasks[t].ok
    /\ tasks[t].pc \in {"SetValue", "SetValueTxn", "writeJSON", "writeNewline"}

\* C33: a put_chunk step that succeeds leaves the session's buffer as the
\* buffer before it followed by the whole payload, and one that fails
\* answers the unknown-session error and leaves the table alone; a
\* put_commit step takes the whole buffer and removes the session; so a
\* chunk that succeeded in the same session generation as a commit running
\* beside it has its payload, whole and at the place it was appended, in
\* the value the commit took.
C33_OneCriticalSection ==
    [][/\ \A t \in TaskIds :
            /\ Leaves(t, "handlePutChunk")
                 => LET sid == tasks[t].req.sid
                    IN  IF tasks'[t].resp.code = 0
                        THEN /\ sid \in DOMAIN chunkBuffer
                             /\ chunkBuffer'
                                  = [chunkBuffer EXCEPT
                                        ![sid] = @ \o tasks[t].data]
                        ELSE /\ tasks'[t].resp = UnknownSessionResp(tasks[t].req)
                             /\ sid \notin DOMAIN chunkBuffer
                             /\ chunkBuffer' = chunkBuffer
            /\ (Leaves(t, "handlePutCommit") /\ tasks'[t].ok)
                 => /\ tasks'[t].buf = chunkBuffer[tasks[t].req.sid]
                    /\ chunkBuffer' = MapDelete(chunkBuffer, tasks[t].req.sid)
       /\ \A c, m \in TaskIds :
            (/\ Appended(c) /\ TookBuffer(m)
             /\ tasks[c].req.sid = tasks[m].req.sid
             /\ tasks[c].gen = tasks[m].gen)
            => /\ Len(tasks[m].buf) >= tasks[c].at + Len(tasks[c].data)
               /\ SubSeq(tasks[m].buf, tasks[c].at + 1,
                         tasks[c].at + Len(tasks[c].data)) = tasks[c].data]_vars

\* a chunk has appended "A" and, before it has answered, a commit of the
\* same session has taken a buffer that holds it
C33_Witness ==
    \E c, m \in TaskIds :
        /\ Appended(c) /\ TookBuffer(m)
        /\ tasks[c].req.sid = tasks[m].req.sid
        /\ tasks[c].gen = tasks[m].gen
        /\ tasks[c].data = <<65>>
        /\ tasks[m].buf = <<65>>

\* C34: the handler lock is held only by a task that is between the two
\* writes of writeJSON, whose next step releases it, and never by a task
\* that is in a session critical section or in a store call; and every
\* handler that has started finishes, however many run beside it.
C34_NoLockHeldAcrossCalls ==
    /\ [](mu # 0 => (mu \in TaskIds /\ tasks[mu].pc = "writeNewline"))
    /\ \A t \in 1..MaxLockLines :
          (t \in TaskIds /\ tasks[t].pc # "done")
              ~> (t \in TaskIds /\ tasks[t].pc = "done")

\* one handler holds the lock for its response while another waits to
\* enter the session critical section
C34_Witness ==
    \E t, u \in TaskIds :
        /\ mu = t
        /\ tasks[u].pc \in {"handlePutValue", "handlePutChunk", "handlePutCommit"}

\* the transactions of the four store operations
StoreTxns == {"GetValueTxn", "SetValueTxn", "DeleteKeyTxn", "ListKeysTxn"}

\* C35: no transaction of GetValue, SetValue, DeleteKey or ListKeys starts
\* on a store instance that a Close has closed: an operation that races
\* with Close answers the not-open error or runs on the open instance.
C35_NoTxnAfterClose ==
    [][\A t \in TaskIds : \A txn \in StoreTxns :
          Leaves(t, txn)
          => /\ ~Closed(tasks[t].db)
             /\ tasks'[t].resp.msg # ErrDBClosed]_vars

\* ---------------------------------------------------------------------------
\* The session table: restart of a session, frame of the other requests
\* ---------------------------------------------------------------------------

\* C36: a put_value step leaves its session with an empty buffer, whether
\* or not the session was live, and leaves the other sessions alone; a
\* commit that follows a second put_value of the session stores the
\* payloads of the chunks appended since that put_value only.
C36_PutValueRestarts ==
    [][\A t \in TaskIds :
          /\ (Leaves(t, "handlePutValue") /\ proc' = "running")
               => chunkBuffer' = MapPut(chunkBuffer, tasks[t].req.id, <<>>)
          /\ (Leaves(t, "SetValueTxn") /\ tasks'[t].wrote)
               => tasks'[t].stored = tasks[t].expected]_vars

\* a put_value has replaced a buffer that held bytes
C36_Witness ==
    \E t \in TaskIds :
        /\ tasks[t].req.type = "put_value"
        /\ tasks[t].pc = "writeJSON"
        /\ tasks[t].at >= 1
        /\ tasks[t].req.id \in DOMAIN chunkBuffer
        /\ chunkBuffer[tasks[t].req.id] = <<>>

\* the program points at which a handler is inside a session critical section
SessionSteps == {"handlePutValue", "handlePutChunk", "handlePutCommit"}

\* C37: the session table changes only in a step of put_value, put_chunk
\* or put_commit: reading a line, decoding it, open_db, close_db,
\* list_keys, get_value, delete_key, the store write of a commit, the
\* answers to unknown kinds and malformed lines, and the return of Run
\* leave every session id and buffer as they were.
C37_OnlySessionRequestsChange ==
    [][/\ chunkBuffer' # chunkBuffer
            => \E t \in TaskIds :
                   tasks[t].pc \in SessionSteps /\ Leaves(t, tasks[t].pc)
       /\ \A t \in TaskIds :
            (tasks[t].pc \notin SessionSteps /\ Leaves(t, tasks[t].pc))
            => chunkBuffer' = chunkBuffer]_vars

\* an open_db has succeeded after a close_db while a session holds "A"
C37_Witness ==
    \E t \in TaskIds :
        /\ tasks[t].req.type = "open_db"
        /\ tasks[t].pc = "writeJSON"
        /\ tasks[t].resp.code = 0
        /\ opened = 2
        /\ "s1" \in DOMAIN chunkBuffer
        /\ chunkBuffer["s1"] = <<65>>

\* ---------------------------------------------------------------------------
\* The key list screen
\* ---------------------------------------------------------------------------

\* C40: the rows and the hasMore flag of the key list screen change only
\* to the page of the fetch issued last: the result of an earlier fetch
\* that comes in after a newer fetch was issued does not replace them.
C40_LatestFetchShown ==
    [][(screen'.keys # screen.keys \/ screen'.hasMore # screen.hasMore)
          => screen'.shown = screen.issued]_vars

====
